---------------------------- MODULE Spec2Model ----------------------------
(***************************************************************************)
(* A model of a-blog-out-of-deep-space: the static-site router built by    *)
(* router() (src/src/router.rs), the file loader and response assembler    *)
(* (src/src/file.rs), the header extractors (src/src/extract.rs) and the   *)
(* middleware stack the router is wrapped in.                              *)
(*                                                                         *)
(* Text is modelled as sequences of one-character strings, bytes as        *)
(* sequences of numbers 0..255, an Option<T> as a sequence of length 0     *)
(* (None) or 1 (Some).                                                     *)
(***************************************************************************)
EXTENDS Integers, Sequences, FiniteSets, TLC

\* ------------------------------------------------------------------ bounds

\* The largest number of files a modelled directory tree holds.
MaxFiles == 2

\* ----------------------------------------------------------------- options

None == <<>>

Some(x) == <<x>>

IsSome(o) == Len(o) = 1

Unwrap(o) == o[1]

\* A value computed once and then named is written
\*     CHOOSE r \in {e : v \in {a}} : TRUE
\* which is e with v standing for the value of a.

\* -------------------------------------------------------------------- text

Range(s) == {s[i] : i \in 1..Len(s)}

\* str::ends_with
EndsWith(s, suffix) ==
    /\ Len(suffix) <= Len(s)
    /\ SubSeq(s, Len(s) - Len(suffix) + 1, Len(s)) = suffix

\* str::strip_suffix: Some(the text before the suffix), or None
StripSuffix(s, suffix) ==
    IF EndsWith(s, suffix) THEN Some(SubSeq(s, 1, Len(s) - Len(suffix))) ELSE None

\* The index of the last occurrence of character c in s, 0 when there is none
LastIndexOf(s, c) ==
    LET hits == {i \in 1..Len(s) : s[i] = c}
    IN  IF hits = {} THEN 0 ELSE CHOOSE i \in hits : \A j \in hits : j <= i

\* The index of the first occurrence of character c in s, 0 when there is none
FirstIndexOf(s, c) ==
    LET hits == {i \in 1..Len(s) : s[i] = c}
    IN  IF hits = {} THEN 0 ELSE CHOOSE i \in hits : \A j \in hits : i <= j

\* [&str]::join
RECURSIVE Join(_, _)
Join(parts, sep) ==
    IF Len(parts) = 0 THEN <<>>
    ELSE IF Len(parts) = 1 THEN parts[1]
    ELSE parts[1] \o sep \o Join(Tail(parts), sep)

\* str::split(','): the pieces between the separators, empty pieces included
RECURSIVE Split(_, _)
Split(s, c) ==
    LET i == FirstIndexOf(s, c)
    IN  IF i = 0 THEN <<s>>
        ELSE <<SubSeq(s, 1, i - 1)>> \o Split(SubSeq(s, i + 1, Len(s)), c)

\* The whitespace a header value that passed to_str() can hold
IsWhitespace(c) == c \in {" ", "\t"}

\* str::trim
RECURSIVE TrimStart(_)
TrimStart(s) ==
    IF Len(s) > 0 /\ IsWhitespace(s[1]) THEN TrimStart(Tail(s)) ELSE s

RECURSIVE TrimEnd(_)
TrimEnd(s) ==
    IF Len(s) > 0 /\ IsWhitespace(s[Len(s)])
    THEN TrimEnd(SubSeq(s, 1, Len(s) - 1))
    ELSE s

Trim(s) == TrimEnd(TrimStart(s))

Digits == <<"0", "1", "2", "3", "4", "5", "6", "7", "8", "9">>

HexDigits ==
    <<"0", "1", "2", "3", "4", "5", "6", "7", "8", "9", "a", "b", "c", "d", "e", "f">>

IsDigit(c) == c \in Range(Digits)

DigitVal(c) == (CHOOSE i \in 1..10 : Digits[i] = c) - 1

\* format!("{n}") of an unsigned number
RECURSIVE Decimal(_)
Decimal(n) ==
    IF n < 10 THEN <<Digits[n + 1]>> ELSE Decimal(n \div 10) \o <<Digits[(n % 10) + 1]>>

\* format!("{n:x}"): lowercase hex, no leading zeros
RECURSIVE LowerHex(_)
LowerHex(n) ==
    IF n < 16 THEN <<HexDigits[n + 1]>>
    ELSE LowerHex(n \div 16) \o <<HexDigits[(n % 16) + 1]>>

\* The literals of the source, spelled out
S_slash == <<"/">>

S_dot_html == <<".", "h", "t", "m", "l">>

S_index_html == <<"i", "n", "d", "e", "x">> \o S_dot_html

S_slash_index_html == S_slash \o S_index_html

S_gzip == <<"g", "z", "i", "p">>

S_br == <<"b", "r">>

S_identity == <<"i", "d", "e", "n", "t", "i", "t", "y">>

S_quote == <<"\"">>

\* ------------------------------------------------------- http::StatusCode

\* str::parse::<StatusCode>: exactly three ASCII digits, the first not 0
ParseStatusCode(s) ==
    IF /\ Len(s) = 3
       /\ \A i \in 1..3 : IsDigit(s[i])
       /\ s[1] # "0"
    THEN Some(100 * DigitVal(s[1]) + 10 * DigitVal(s[2]) + DigitVal(s[3]))
    ELSE None

NOT_FOUND == 404

REQUEST_TIMEOUT == 408

INTERNAL_SERVER_ERROR == 500

SERVICE_UNAVAILABLE == 503

\* Printable ASCII, in code order from 32 (space) to 126 (~)
Ascii ==
    <<" ", "!", "\"", "#", "$", "%", "&", "'", "(", ")", "*", "+", ",", "-", ".", "/",
      "0", "1", "2", "3", "4", "5", "6", "7", "8", "9", ":", ";", "<", "=", ">", "?",
      "@", "A", "B", "C", "D", "E", "F", "G", "H", "I", "J", "K", "L", "M", "N", "O",
      "P", "Q", "R", "S", "T", "U", "V", "W", "X", "Y", "Z", "[", "\\", "]", "^", "_",
      "<backtick>", "a", "b", "c", "d", "e", "f", "g", "h", "i", "j", "k", "l", "m", "n", "o",
      "p", "q", "r", "s", "t", "u", "v", "w", "x", "y", "z", "{", "|", "}", "~">>

\* str::as_bytes of ASCII text
AsBytes(s) ==
    CHOOSE bytes \in
        {[i \in 1..Len(text) |-> (CHOOSE k \in 1..Len(Ascii) : Ascii[k] = text[i]) + 31] :
            text \in {s}} : TRUE

\* StatusCode::canonical_reason, for the codes the router renders
CanonicalReason(status) ==
    CASE status = 404 -> <<"N", "o", "t", " ", "F", "o", "u", "n", "d">>
      [] status = 408 ->
            <<"R", "e", "q", "u", "e", "s", "t", " ", "T", "i", "m", "e", "o", "u", "t">>
      [] status = 500 ->
            <<"I", "n", "t", "e", "r", "n", "a", "l", " ", "S", "e", "r", "v", "e", "r",
              " ", "E", "r", "r", "o", "r">>
      [] status = 503 ->
            <<"S", "e", "r", "v", "i", "c", "e", " ", "U", "n", "a", "v", "a", "i", "l",
              "a", "b", "l", "e">>

\* A Display that writes the code alone
StatusToString_code_only(status) == Decimal(status)

\* StatusCode's Display, used by status.to_string(): "<code> <reason>"
StatusToString(status) == Decimal(status) \o <<" ">> \o CanonicalReason(status)

\* ------------------------------------------------------------ ContentType

\* ContentType::from_file_ext
from_file_ext(ext) ==
    CASE ext = <<"h", "t", "m", "l">> -> Some("Html")
      [] ext = <<"j", "s">> -> Some("Js")
      [] ext = <<"s", "v", "g">> -> Some("Svg")
      [] ext = <<"c", "s", "s">> -> Some("Css")
      [] ext = <<"x", "m", "l">> -> Some("Xml")
      [] ext = <<"t", "x", "t">> -> Some("Txt")
      [] ext = <<"w", "o", "f", "f">> -> Some("Woff")
      [] ext = <<"w", "o", "f", "f", "2">> -> Some("Woff2")
      [] ext = <<"p", "n", "g">> -> Some("Png")
      [] OTHER -> None

\* ContentType::is_compressible
is_compressible(ty) == ty \in {"Html", "Js", "Svg", "Css", "Xml", "Txt"}

\* ContentType::into_header_value
into_header_value(ty) ==
    CASE ty = "Html" -> "text/html; charset=utf-8"
      [] ty = "Js" -> "application/javascript; charset=utf-8"
      [] ty = "Svg" -> "image/svg+xml"
      [] ty = "Css" -> "text/css; charset=utf-8"
      [] ty = "Xml" -> "application/xml"
      [] ty = "Txt" -> "text/plain"
      [] ty = "Woff" -> "font/woff"
      [] ty = "Woff2" -> "font/woff2"
      [] ty = "Png" -> "image/png"

\* Path::extension of a file name: the text after the last '.', None when the
\* name has no '.' or only a leading one
\* A byte of a file name that is not part of valid UTF-8 text
OsByte == "<non-utf8-byte>"

\* OsStr::to_str: the text of a name, None when it is not valid UTF-8
OsStr_to_str(name) == IF OsByte \in Range(name) THEN None ELSE Some(name)

Extension(name) ==
    LET i == LastIndexOf(name, ".")
    IN  IF i <= 1 THEN None ELSE Some(SubSeq(name, i + 1, Len(name)))

\* ------------------------------------------------------------------ bytes

IsCont(b) == b >= 128 /\ b <= 191

\* String::from_utf8(..).is_ok(): the well-formed UTF-8 byte sequences
RECURSIVE IsUtf8(_)
IsUtf8(bytes) ==
    IF Len(bytes) = 0 THEN TRUE
    ELSE LET b == bytes[1]
             n == Len(bytes)
         IN  IF b <= 127 THEN IsUtf8(Tail(bytes))
             ELSE IF b >= 194 /\ b <= 223
                  THEN n >= 2 /\ IsCont(bytes[2]) /\ IsUtf8(SubSeq(bytes, 3, n))
             ELSE IF b >= 224 /\ b <= 239
                  THEN /\ n >= 3
                       /\ IsCont(bytes[2])
                       /\ IsCont(bytes[3])
                       /\ (b = 224 => bytes[2] >= 160)
                       /\ (b = 237 => bytes[2] <= 159)
                       /\ IsUtf8(SubSeq(bytes, 4, n))
             ELSE IF b >= 240 /\ b <= 244
                  THEN /\ n >= 4
                       /\ IsCont(bytes[2])
                       /\ IsCont(bytes[3])
                       /\ IsCont(bytes[4])
                       /\ (b = 240 => bytes[2] >= 144)
                       /\ (b = 244 => bytes[2] <= 143)
                       /\ IsUtf8(SubSeq(bytes, 5, n))
             ELSE FALSE

ARBITRARY_SEED == 12648430

\* XxHash64::oneshot(seed, bytes). The real digest is 64 bits wide; the model
\* keeps what the program relies on, a fixed function of the seed and the
\* bytes alone, folded to 16 bits (modulo 65536).
RECURSIVE HashFold(_, _)
HashFold(h, bytes) ==
    IF Len(bytes) = 0 THEN h
    ELSE HashFold((h * 31 + bytes[1] + 1) % 65536, Tail(bytes))

XxHash64(seed, bytes) == HashFold(seed % 65536, bytes)

\* Run-length pairs <<count, byte>> of a byte sequence: the redundancy a
\* compressor removes
RECURSIVE RunLength(_)
RunLength(bytes) ==
    IF Len(bytes) = 0 THEN <<>>
    ELSE LET b == bytes[1]
             stop == {i \in 1..Len(bytes) : bytes[i] # b}
             n == IF stop = {} THEN Len(bytes)
                  ELSE (CHOOSE i \in stop : \A j \in stop : i <= j) - 1
         IN  <<n, b>> \o RunLength(SubSeq(bytes, n + 1, Len(bytes)))

\* gz_compress: the gzip member for the bytes: magic and method, the
\* compressed payload, and the input size trailer
gz_compress(bytes) == <<31, 139, 8>> \o RunLength(bytes) \o <<Len(bytes) % 256>>

\* br_compress: the brotli stream for the bytes (window bits header, then the
\* compressed payload)
br_compress(bytes) == <<22>> \o RunLength(bytes)

\* ----------------------------------------------------- extract::Encoding

\* A byte of a header value outside visible ASCII (obs-text, 0x80..0xFF)
ObsText == "<obs-text>"

\* HeaderValue::to_str: the text of the value, None when a byte of it is not
\* visible ASCII
to_str(value) == IF ObsText \in Range(value) THEN None ELSE Some(value)

\* Encoding::from_str
Encoding_from_str(s) ==
    CASE s = S_identity -> Some("Identity")
      [] s = S_gzip -> Some("Gzip")
      [] s = S_br -> Some("Brotli")
      [] OTHER -> None

\* DropQuality keeping the name in front of the ';' of a quality value
DropQuality_keeps_name(chunk) ==
    LET trimmed == Trim(chunk)
        i == FirstIndexOf(trimmed, ";")
    IN  IF i > 0 THEN Some(SubSeq(trimmed, 1, i - 1)) ELSE Some(trimmed)

\* The closure of the first filter_map: the trimmed chunk, None when it holds
\* a ';' (a quality value)
DropQuality(chunk) ==
    CHOOSE kept \in {IF ";" \in Range(trimmed) THEN None ELSE Some(trimmed) :
                        trimmed \in {Trim(chunk)}} : TRUE

\* .filter_map(..).filter_map(|encoding| encoding.parse().ok()).next() over
\* the chunks, in order
RECURSIVE FirstParsed(_)
FirstParsed(chunks) ==
    IF Len(chunks) = 0 THEN None
    ELSE CHOOSE first \in
            {IF IsSome(parsed) THEN parsed ELSE FirstParsed(Tail(chunks)) :
                parsed \in {IF IsSome(kept) THEN Encoding_from_str(Unwrap(kept)) ELSE None :
                                kept \in {DropQuality(chunks[1])}}} : TRUE

\* from_req_parts: accept_encoding is Option<header value>
from_req_parts(accept_encoding) ==
    IF ~IsSome(accept_encoding) THEN None
    ELSE CHOOSE found \in
            {IF ~IsSome(text) THEN None
             ELSE CHOOSE first \in {FirstParsed(chunks) :
                                        chunks \in {Split(Unwrap(text), ",")}} : TRUE :
                text \in {to_str(Unwrap(accept_encoding))}} : TRUE

\* <Encoding as FromRequestParts>::from_request_parts: unwrap_or_default()
Encoding_from_request_parts(accept_encoding) ==
    LET found == from_req_parts(accept_encoding)
    IN  IF IsSome(found) THEN Unwrap(found) ELSE "Identity"

\* Encoding::into_content_encoding_value
into_content_encoding_value(encoding) ==
    CASE encoding = "Identity" -> None
      [] encoding = "Gzip" -> Some("gzip")
      [] encoding = "Brotli" -> Some("br")

ALL_ENCODINGS == "gzip, br"

\* <IfNoneMatch as OptionalFromRequestParts>::from_request_parts
IfNoneMatch_from_request_parts(if_none_match) ==
    IF ~IsSome(if_none_match) THEN None ELSE to_str(Unwrap(if_none_match))

\* ------------------------------------------------------- file::ServedFile

\* HeaderMap::insert
Insert(headers, name, value) == (name :> value) @@ headers

\* HeaderMap::remove
Remove(headers, name) == [n \in DOMAIN headers \ {name} |-> headers[n]]

NoHeaders == [n \in {} |-> ""]

\* TextFile::from(String)
TextFile_from(contents) ==
    [kind |-> "Text",
     gz_compressed |-> gz_compress(contents),
     br_compressed |-> br_compress(contents),
     contents |-> contents]

\* DataFile::from(Vec<u8>)
DataFile_from(contents) == [kind |-> "Data", data |-> contents]

\* The e_tag block of ServedFile::load: format!("\"{hash:x}\"")
ETagOf(contents) ==
    S_quote \o LowerHex(XxHash64(ARBITRARY_SEED, contents)) \o S_quote

\* ServedFile::load with the media type hashed into the e_tag along with the
\* bytes
ServedFile_load_tag_of_type(entry) ==
    LET os_ext == Extension(entry.path[Len(entry.path)])
        ext == IF IsSome(os_ext) THEN OsStr_to_str(Unwrap(os_ext)) ELSE None
        ty == IF IsSome(ext) THEN from_file_ext(Unwrap(ext)) ELSE None
    IN  IF ~IsSome(ty) THEN None
        ELSE IF ~entry.readable THEN None
        ELSE IF is_compressible(Unwrap(ty))
             THEN IF ~IsUtf8(entry.bytes) THEN None
                  ELSE Some([e_tag |-> ETagOf(<<1>> \o entry.bytes),
                             ty |-> Unwrap(ty),
                             file |-> TextFile_from(entry.bytes)])
        ELSE Some([e_tag |-> ETagOf(<<2>> \o entry.bytes),
                   ty |-> Unwrap(ty),
                   file |-> DataFile_from(entry.bytes)])

\* ServedFile::load. entry is a regular file of the tree: its path components,
\* its bytes and whether fs::read succeeds
ServedFile_load(entry) ==
    LET os_ext == Extension(entry.path[Len(entry.path)])
        ext == IF IsSome(os_ext) THEN OsStr_to_str(Unwrap(os_ext)) ELSE None
        ty == IF IsSome(ext) THEN from_file_ext(Unwrap(ext)) ELSE None
    IN  IF ~IsSome(ty) THEN None
        ELSE IF ~entry.readable THEN None
        ELSE IF is_compressible(Unwrap(ty))
             THEN IF ~IsUtf8(entry.bytes) THEN None
                  ELSE Some([e_tag |-> ETagOf(entry.bytes),
                             ty |-> Unwrap(ty),
                             file |-> TextFile_from(entry.bytes)])
        ELSE Some([e_tag |-> ETagOf(entry.bytes),
                   ty |-> Unwrap(ty),
                   file |-> DataFile_from(entry.bytes)])

\* setup_headers without the Vary header
setup_headers_no_vary(headers, encoding) ==
    LET advertised == Insert(headers, "accept-encoding", ALL_ENCODINGS)
        content_encoding == into_content_encoding_value(encoding)
    IN  IF IsSome(content_encoding)
        THEN Insert(advertised, "content-encoding", Unwrap(content_encoding))
        ELSE advertised

\* TextFile::setup_headers
setup_headers(headers, encoding) ==
    LET advertised == Insert(headers, "accept-encoding", ALL_ENCODINGS)
        content_encoding == into_content_encoding_value(encoding)
    IN  IF IsSome(content_encoding)
        THEN Insert(Insert(advertised, "vary", "accept-encoding"),
                    "content-encoding", Unwrap(content_encoding))
        ELSE advertised

\* select_body_bytes with the arms of the compressed encodings swapped
select_body_bytes_swapped(text_file, encoding) ==
    CASE encoding = "Gzip" -> text_file.br_compressed
      [] encoding = "Brotli" -> text_file.gz_compressed
      [] encoding = "Identity" -> text_file.contents

\* TextFile::select_body_bytes
select_body_bytes(text_file, encoding) ==
    CASE encoding = "Gzip" -> text_file.gz_compressed
      [] encoding = "Brotli" -> text_file.br_compressed
      [] encoding = "Identity" -> text_file.contents

SERVER == "a-blog-out-of-deep-space/0.1.0"

\* TagMatches by weak comparison: a W/ in front of the client tag is ignored
TagMatches_weak(file, if_none_match) ==
    /\ IsSome(if_none_match)
    /\ \/ Unwrap(if_none_match) = file.e_tag
       \/ Unwrap(if_none_match) = <<"W", "/">> \o file.e_tag

\* The client tag equals the file's e_tag
TagMatches(file, if_none_match) ==
    IsSome(if_none_match) /\ Unwrap(if_none_match) = file.e_tag

\* to_response with the ETag set on the builder before the revalidation
\* branch, so that a 304 carries it too
to_response_etag_on_304(file, encoding, if_none_match) ==
    LET builder ==
            Insert(Insert(Insert(Insert(NoHeaders, "server", SERVER),
                                 "content-type", into_header_value(file.ty)),
                          "cache-control", "max-age=300"),
                   "etag", file.e_tag)
    IN  IF TagMatches(file, if_none_match)
        THEN [status |-> 304, headers |-> builder, body |-> <<>>]
        ELSE LET headers == IF file.file.kind = "Text"
                            THEN setup_headers(builder, encoding)
                            ELSE builder
                 bytes == IF file.file.kind = "Text"
                          THEN select_body_bytes(file.file, encoding)
                          ELSE file.file.data
             IN  [status |-> 200,
                  headers |-> Insert(headers, "content-length", Len(bytes)),
                  body |-> bytes]

\* to_response with Content-Length taken from the file's contents, whatever
\* the body emitted
to_response_length_of_contents(file, encoding, if_none_match) ==
    LET builder ==
            Insert(Insert(Insert(NoHeaders, "server", SERVER),
                          "content-type", into_header_value(file.ty)),
                   "cache-control", "max-age=300")
    IN  IF TagMatches(file, if_none_match)
        THEN [status |-> 304, headers |-> builder, body |-> <<>>]
        ELSE LET headers == IF file.file.kind = "Text"
                            THEN setup_headers(builder, encoding)
                            ELSE builder
                 bytes == IF file.file.kind = "Text"
                          THEN select_body_bytes(file.file, encoding)
                          ELSE file.file.data
                 contents == IF file.file.kind = "Text"
                             THEN file.file.contents
                             ELSE file.file.data
             IN  [status |-> 200,
                  headers |-> Insert(Insert(headers, "etag", file.e_tag),
                                     "content-length", Len(contents)),
                  body |-> bytes]

\* to_response with a fingerprint of its own for every encoding variant: that
\* of the bytes it is about to send
to_response_tag_of_variant(file, encoding, if_none_match) ==
    LET builder ==
            Insert(Insert(Insert(NoHeaders, "server", SERVER),
                          "content-type", into_header_value(file.ty)),
                   "cache-control", "max-age=300")
        headers == IF file.file.kind = "Text"
                   THEN setup_headers(builder, encoding)
                   ELSE builder
        bytes == IF file.file.kind = "Text"
                 THEN select_body_bytes(file.file, encoding)
                 ELSE file.file.data
    IN  IF if_none_match = Some(ETagOf(bytes))
        THEN [status |-> 304, headers |-> builder, body |-> <<>>]
        ELSE [status |-> 200,
              headers |-> Insert(Insert(headers, "etag", ETagOf(bytes)),
                                 "content-length", Len(bytes)),
              body |-> bytes]

\* ServedFile::to_response
to_response(file, encoding, if_none_match) ==
    LET builder ==
            Insert(Insert(Insert(NoHeaders, "server", SERVER),
                          "content-type", into_header_value(file.ty)),
                   "cache-control", "max-age=300")
    IN  IF TagMatches(file, if_none_match)
        THEN [status |-> 304, headers |-> builder, body |-> <<>>]
        ELSE LET headers == IF file.file.kind = "Text"
                            THEN setup_headers(builder, encoding)
                            ELSE builder
                 bytes == IF file.file.kind = "Text"
                          THEN select_body_bytes(file.file, encoding)
                          ELSE file.file.data
             IN  [status |-> 200,
                  headers |-> Insert(Insert(headers, "etag", file.e_tag),
                                     "content-length", Len(bytes)),
                  body |-> bytes]

\* ------------------------------------------------------- the served tree

N_404 == <<"4", "0", "4">>

N_408 == <<"4", "0", "8">>

N_503 == <<"5", "0", "3">>

N_posts == <<"p", "o", "s", "t", "s">>

N_a_png == <<"a", ".", "p", "n", "g">>

N_notes == <<"n", "o", "t", "e", "s">>

\* File contents: ASCII text with a repeated byte ("hii"), and bytes that are
\* not UTF-8
TextBytes == <<104, 105, 105>>

BinaryBytes == <<255, 104>>

CandidateBytes == {TextBytes, BinaryBytes}

\* The root-relative paths (as components) a modelled tree may hold
CandidatePaths ==
    {<<S_index_html>>,
     <<N_404 \o S_dot_html>>,
     <<N_404 \o S_dot_html, S_index_html>>,
     <<N_408 \o S_dot_html>>,
     <<N_503 \o S_dot_html>>,
     <<N_posts, S_index_html>>,
     <<N_posts, N_a_png>>,
     <<N_notes>>}

CandidateEntries ==
    [path : CandidatePaths, bytes : CandidateBytes, readable : {TRUE}]

\* p names a directory on the way to q
IsProperPrefix(p, q) == Len(p) < Len(q) /\ SubSeq(q, 1, Len(p)) = p

\* What a file system can hold: one file per path, and no file where a
\* directory is
IsTree(entries) ==
    \A e1, e2 \in entries :
        /\ (e1.path = e2.path => e1 = e2)
        /\ ~IsProperPrefix(e1.path, e2.path)

Trees ==
    {t \in SUBSET CandidateEntries : Cardinality(t) <= MaxFiles /\ IsTree(t)}

\* ---------------------------------------------------------------- requests

S_not_found == <<"/", "n", "o", "t", "-", "f", "o", "u", "n", "d">>

\* The request paths tried: every candidate file's path, its directory with
\* and without the trailing slash, and a path no tree holds
RequestPaths ==
    LET full == {S_slash \o Join(p, S_slash) : p \in CandidatePaths}
        dirs == {Unwrap(StripSuffix(f, S_index_html)) :
                    f \in {g \in full : EndsWith(g, S_slash_index_html)}}
        bare == {Unwrap(StripSuffix(f, S_slash_index_html)) :
                    f \in {g \in full : EndsWith(g, S_slash_index_html)}}
    IN  (full \cup dirs \cup bare \cup {S_not_found}) \ {<<>>}

\* Accept-Encoding header values tried: absent, "gzip", "deflate, br" and
\* "br;q=1.0, identity"
AcceptEncodings ==
    {None,
     Some(S_gzip),
     Some(<<"d", "e", "f", "l", "a", "t", "e", ",", " ">> \o S_br),
     Some(S_br \o <<";", "q", "=", "1", ".", "0", ",", " ">> \o S_identity)}

\* If-None-Match header values tried without an earlier response: absent, the
\* wildcard, the fingerprint of TextBytes, its weak form, and a list that
\* holds it
IfNoneMatches ==
    {None,
     Some(<<"*">>),
     Some(ETagOf(TextBytes)),
     Some(<<"W", "/">> \o ETagOf(TextBytes)),
     Some(ETagOf(TextBytes) \o <<",", " ", "\"", "0", "\"">>)}

\* ------------------------------------------------------------------- state

VARIABLES
    dir,             \* the directory tree router() walks
    todo,            \* the entries WalkDir has not yielded yet
    pc,              \* "loading", "serving" or "panicked"
    routes,          \* the Router: route path -> the ServedFile its handler serves
    status_pages,    \* BTreeMap<StatusCode, ServedFile>
    not_found_page,  \* Option<Arc<ServedFile>>
    last,            \* Option of the request being answered and its response
    header,          \* Option of the Accept-Encoding value of a request's parts
    negotiated,      \* Option of the Encoding the extractor made of header
    clients,         \* per connection: its request's way through the layers
    channel,         \* entries in the recorder's channel, not yet received
    worker,          \* recorder_worker: whether the task is alive, and its counter
    recorder         \* recorder_worker's locals, its stream and the file it wrote

vars == <<dir, todo, pc, routes, status_pages, not_found_page, last,
          header, negotiated, clients, channel, worker, recorder>>

\* The state of the extractor run on its own, and of the layered service
negVars == <<header, negotiated>>
pipeVars == <<clients, channel, worker, recorder>>

tables == <<routes, status_pages, not_found_page>>

NoRoutes == [p \in {} |-> <<>>]

\* ------------------------------------------------------- router::router()

\* The file's name alone, without the directories above it
RelPath_file_name(entry) == entry.path[Len(entry.path)]

\* rel_path of the loop body: the components joined by "/"
RelPath(entry) == Join(entry.path, S_slash)

\* StatusCodeOf parsing the name with its suffix left on
StatusCodeOf_suffix_left(rel_path) == ParseStatusCode(rel_path)

\* The status code of a status page entry: rel_path.strip_suffix(".html")
\* .and_then(|name| name.parse::<StatusCode>().ok())
StatusCodeOf(rel_path) ==
    LET name == StripSuffix(rel_path, S_dot_html)
    IN  IF IsSome(name) THEN ParseStatusCode(Unwrap(name)) ELSE None

\* RoutePathsOf without the route for the directory path that has no trailing
\* slash
RoutePathsOf_no_bare_alias(rel_path0) ==
    LET rel_path == S_slash \o rel_path0
    IN  (IF EndsWith(rel_path, S_slash_index_html)
         THEN <<Unwrap(StripSuffix(rel_path, S_index_html))>>
         ELSE <<>>)
        \o <<rel_path>>

\* RoutePathsOf with the route "/" for every index.html
RoutePathsOf_slash_for_every_index(rel_path0) ==
    LET rel_path == S_slash \o rel_path0
    IN  (IF EndsWith(rel_path, S_slash_index_html) THEN <<S_slash>> ELSE <<>>)
        \o <<rel_path>>

\* RoutePathsOf with the file's own path only
RoutePathsOf_canonical_only(rel_path0) == <<S_slash \o rel_path0>>

\* RoutePathsOf without the route for the directory path that ends in a slash
RoutePathsOf_no_slash_alias(rel_path0) ==
    LET rel_path == S_slash \o rel_path0
    IN  (IF EndsWith(rel_path, S_slash_index_html) /\ rel_path # S_slash_index_html
         THEN <<Unwrap(StripSuffix(rel_path, S_slash_index_html))>>
         ELSE <<>>)
        \o <<rel_path>>

\* The route paths the else branch of the loop registers for a file, in the
\* order of its router.route(..) calls
RoutePathsOf(rel_path0) ==
    LET rel_path == S_slash \o rel_path0
    IN  (IF rel_path = S_index_html
         THEN <<S_slash>>
         ELSE IF EndsWith(rel_path, S_slash_index_html)
              THEN (IF rel_path # S_slash_index_html
                    THEN <<Unwrap(StripSuffix(rel_path, S_slash_index_html))>>
                    ELSE <<>>)
                   \o <<Unwrap(StripSuffix(rel_path, S_index_html))>>
              ELSE <<>>)
        \o <<rel_path>>

\* Router::route panics on a path that does not start with '/' and on a path
\* that is already routed
RouteRejects(table, path) ==
    \/ Len(path) = 0
    \/ path[1] # "/"
    \/ path \in DOMAIN table

\* Router::route for each path in turn: the table, or "panic"
RECURSIVE RouteAll(_, _, _)
RouteAll(table, paths, served_file) ==
    IF Len(paths) = 0 THEN [ok |-> TRUE, table |-> table]
    ELSE IF RouteRejects(table, paths[1]) THEN [ok |-> FALSE, table |-> table]
    ELSE RouteAll([p \in DOMAIN table \cup {paths[1]} |->
                      IF p = paths[1] THEN served_file ELSE table[p]],
                  Tail(paths), served_file)

\* The body of the for loop of router() for one entry the walk yields: the
\* tables after it. to_str().unwrap() on a component of the path panics when
\* the component is not valid UTF-8.
LoadStep(t, entry) ==
    LET loaded == ServedFile_load(entry)
        status_code == StatusCodeOf(RelPath(entry))
    IN  IF ~IsSome(loaded) THEN t
        ELSE IF \E i \in 1..Len(entry.path) : ~IsSome(OsStr_to_str(entry.path[i]))
        THEN [t EXCEPT !.pc = "panicked"]
        ELSE IF IsSome(status_code)
        THEN [t EXCEPT
                !.not_found_page =
                    IF Unwrap(status_code) = NOT_FOUND THEN loaded ELSE @,
                !.status_pages =
                    [c \in DOMAIN @ \cup {Unwrap(status_code)} |->
                        IF c = Unwrap(status_code) THEN Unwrap(loaded) ELSE @[c]]]
        ELSE LET routed == RouteAll(t.routes, RoutePathsOf(RelPath(entry)),
                                    Unwrap(loaded))
             IN  [t EXCEPT !.routes = routed.table,
                           !.pc = IF routed.ok THEN @ ELSE "panicked"]

\* One turn of the for loop of router(): the walk yields an entry
LoadFile(entry) ==
    /\ pc = "loading"
    /\ entry \in todo
    /\ todo' = todo \ {entry}
    /\ LET t == LoadStep([pc |-> pc,
                          routes |-> routes,
                          status_pages |-> status_pages,
                          not_found_page |-> not_found_page], entry)
       IN  /\ pc' = t.pc
           /\ routes' = t.routes
           /\ status_pages' = t.status_pages
           /\ not_found_page' = t.not_found_page
    /\ UNCHANGED <<dir, last, negVars, pipeVars>>

\* The walk is over: router() adds the fallback and the layers and returns
FinishRouter ==
    /\ pc = "loading"
    /\ todo = {}
    /\ pc' = "serving"
    /\ UNCHANGED <<dir, todo, routes, status_pages, not_found_page, last, negVars, pipeVars>>

\* --------------------------------------------------------------- responses

\* axum sets Content-Length from the body's exact size when the handler left
\* it unset ("axum automatically sets the content length for us")
SetContentLength(resp) ==
    CHOOSE sent \in
        {IF "content-length" \in DOMAIN built.headers THEN built
         ELSE [built EXCEPT !.headers = Insert(@, "content-length", Len(built.body))] :
            built \in {resp}} : TRUE

\* status_code_page assembling the page with the default encoding, whatever
\* the request negotiated
status_code_page_identity(page, status, encoding) ==
    CHOOSE page_resp \in
        {[resp EXCEPT !.status = status,
                      !.headers = Remove(Remove(@, "accept-encoding"), "cache-control")] :
            resp \in
                {IF IsSome(page)
                 THEN to_response(Unwrap(page), "Identity", None)
                 ELSE [status |-> 200,
                       headers |-> NoHeaders,
                       body |-> AsBytes(StatusToString(status))]}} : TRUE

\* status_code_page leaving the page's Accept-Encoding header in place
status_code_page_keeps_accept_encoding(page, status, encoding) ==
    CHOOSE page_resp \in
        {[resp EXCEPT !.status = status,
                      !.headers = Remove(@, "cache-control")] :
            resp \in
                {IF IsSome(page)
                 THEN to_response(Unwrap(page), encoding, None)
                 ELSE [status |-> 200,
                       headers |-> NoHeaders,
                       body |-> AsBytes(StatusToString(status))]}} : TRUE

\* status_code_page leaving the page's Cache-Control header in place
status_code_page_keeps_cache_control(page, status, encoding) ==
    CHOOSE page_resp \in
        {[resp EXCEPT !.status = status,
                      !.headers = Remove(@, "accept-encoding")] :
            resp \in
                {IF IsSome(page)
                 THEN to_response(Unwrap(page), encoding, None)
                 ELSE [status |-> 200,
                       headers |-> NoHeaders,
                       body |-> AsBytes(StatusToString(status))]}} : TRUE

\* status_code_page: page is Option<ServedFile>
status_code_page(page, status, encoding) ==
    CHOOSE page_resp \in
        {[resp EXCEPT !.status = status,
                      !.headers = Remove(Remove(@, "accept-encoding"), "cache-control")] :
            resp \in
                {IF IsSome(page)
                 THEN to_response(Unwrap(page), encoding, None)
                 ELSE [status |-> 200,
                       headers |-> NoHeaders,
                       body |-> AsBytes(StatusToString(status))]}} : TRUE

\* serve_file
serve_file(encoding, if_none_match, file) == to_response(file, encoding, if_none_match)

\* The router's answer to GET path: the handler of the matching route, or the
\* fallback. The extractors run on the request's headers first.
Dispatch(table, page, path, accept_encoding, if_none_match) ==
    CHOOSE resp \in
        {SetContentLength(
            IF path \in DOMAIN table
            THEN serve_file(encoding, client_tag, table[path])
            ELSE status_code_page(page, NOT_FOUND, encoding)) :
         encoding \in {Encoding_from_request_parts(accept_encoding)},
         client_tag \in {IfNoneMatch_from_request_parts(if_none_match)}} : TRUE

\* The failures the middleware stack can hand to its error handler: the
\* load shedder's, the timeout's, and any other boxed error
Errors == {"Overloaded", "Elapsed", "Other"}

\* ErrorStatus without the branch for the timeout's error
ErrorStatus_no_timeout_branch(err) ==
    IF err = "Overloaded" THEN SERVICE_UNAVAILABLE ELSE INTERNAL_SERVER_ERROR

\* The status handle_middleware_error picks for an error
ErrorStatus(err) ==
    IF err = "Overloaded" THEN SERVICE_UNAVAILABLE
    ELSE IF err = "Elapsed" THEN REQUEST_TIMEOUT
    ELSE INTERNAL_SERVER_ERROR

\* status_pages.get(&status)
StatusPage(pages, status) == IF status \in DOMAIN pages THEN Some(pages[status]) ELSE None

\* handle_middleware_error
handle_middleware_error(pages, encoding, err) ==
    status_code_page(StatusPage(pages, ErrorStatus(err)), ErrorStatus(err), encoding)

\* The answer of the HandleError layer to a request whose stack failed with
\* err: the Encoding extractor, then the error handler
HandleError(pages, accept_encoding, err) ==
    CHOOSE resp \in
        {SetContentLength(handle_middleware_error(pages, encoding, err)) :
         encoding \in {Encoding_from_request_parts(accept_encoding)}} : TRUE

\* A request whose handler takes the route it served out of the resource table
Request_evicting(path, accept_encoding, if_none_match) ==
    /\ pc = "serving"
    /\ last = None
    /\ last' = Some([path |-> path,
                     accept_encoding |-> accept_encoding,
                     if_none_match |-> if_none_match,
                     revalidation |-> FALSE,
                     error |-> None,
                     resp |-> Dispatch(routes, not_found_page, path,
                                       accept_encoding, if_none_match)])
    /\ routes' = [p \in DOMAIN routes \ {path} |-> routes[p]]
    /\ UNCHANGED <<dir, todo, pc, status_pages, not_found_page, negVars, pipeVars>>

\* A GET request served from arrival to response
Request(path, accept_encoding, if_none_match) ==
    /\ pc = "serving"
    /\ last = None
    /\ last' = Some([path |-> path,
                     accept_encoding |-> accept_encoding,
                     if_none_match |-> if_none_match,
                     revalidation |-> FALSE,
                     error |-> None,
                     resp |-> Dispatch(routes, not_found_page, path,
                                       accept_encoding, if_none_match)])
    /\ UNCHANGED <<dir, todo, pc, routes, status_pages, not_found_page, negVars, pipeVars>>

\* The client of the last 200 asks for the same path again, If-None-Match set
\* to the ETag it was given
Revalidate(accept_encoding) ==
    /\ pc = "serving"
    /\ IsSome(last)
    /\ Unwrap(last).resp.status = 200
    /\ "etag" \in DOMAIN Unwrap(last).resp.headers
    /\ LET path == Unwrap(last).path
           etag == Some(Unwrap(last).resp.headers["etag"])
       IN  last' = Some([path |-> path,
                         accept_encoding |-> accept_encoding,
                         if_none_match |-> etag,
                         revalidation |-> TRUE,
                         error |-> None,
                         resp |-> Dispatch(routes, not_found_page, path,
                                           accept_encoding, etag)])
    /\ UNCHANGED <<dir, todo, pc, routes, status_pages, not_found_page, negVars, pipeVars>>

\* A GET request whose middleware stack fails with err before a handler's
\* response is returned
FailedRequest(path, accept_encoding, err) ==
    /\ pc = "serving"
    /\ last = None
    /\ last' = Some([path |-> path,
                     accept_encoding |-> accept_encoding,
                     if_none_match |-> None,
                     revalidation |-> FALSE,
                     error |-> Some(err),
                     resp |-> HandleError(status_pages, accept_encoding, err)])
    /\ UNCHANGED <<dir, todo, pc, routes, status_pages, not_found_page, negVars, pipeVars>>

\* The response is written to the connection; the server keeps nothing of it
Respond ==
    /\ pc = "serving"
    /\ IsSome(last)
    /\ last' = None
    /\ UNCHANGED <<dir, todo, pc, routes, status_pages, not_found_page, negVars, pipeVars>>

\* ------------------------------------------------------- the layered service

\* Connections with a request each
NumClients == 2

Clients == 1..NumClients

\* A connection before its request: the fields are the request, the state of
\* the handler's future inside the layers, the 60 s timer of the timeout
\* layer, the error the layers raised, and the responses written back
NoRequest ==
    [req |-> None, work |-> "none", deadline |-> "ahead", overdue |-> FALSE,
     fault |-> None, sent |-> <<>>, recorded |-> "none"]

\* recorder_worker as spawned: counter = 0, the receiver held by the task
WorkerStart == [alive |-> TRUE, counter |-> 0]

\* recorder_worker's locals before its loop (counter = 0, norm_entries and
\* headers empty), nothing written yet, and the entries its stream will yield:
\* those of the pattern, over and over
LocalsStart(pattern) ==
    [recv_stream |-> [pattern |-> pattern, at |-> 1],
     counter |-> 0,
     norm_entries |-> <<>>,
     headers |-> <<>>,
     written |-> None,
     state |-> "receiving"]

Init ==
    /\ dir \in Trees
    /\ todo = dir
    /\ pc = "loading"
    /\ routes = NoRoutes
    /\ status_pages = NoRoutes
    /\ not_found_page = None
    /\ last = None
    /\ header = None
    /\ negotiated = None
    /\ clients = [c \in Clients |-> NoRequest]
    /\ channel = 0
    /\ worker = WorkerStart
    /\ recorder = LocalsStart(<<>>)

Next ==
    \/ \E entry \in CandidateEntries : LoadFile(entry)
    \/ FinishRouter
    \/ \E path \in RequestPaths, accept_encoding \in AcceptEncodings,
          if_none_match \in IfNoneMatches :
            Request(path, accept_encoding, if_none_match)
    \/ \E accept_encoding \in AcceptEncodings : Revalidate(accept_encoding)
    \/ \E path \in RequestPaths, accept_encoding \in AcceptEncodings, err \in Errors :
            FailedRequest(path, accept_encoding, err)
    \/ Respond

Spec == Init /\ [][Next]_vars

\* ---------------------------------------------------------- the build alone

\* The paths a tree may hold when only the build is looked at: the candidate
\* paths, a status page name inside a directory, a name of three digits that
\* is no status code, and a file whose name is not valid UTF-8
BuildPaths ==
    CandidatePaths \cup
        {<<N_posts, N_404 \o S_dot_html>>,
         <<<<"0", "0", "0">> \o S_dot_html>>,
         <<<<OsByte>> \o S_dot_html>>}

\* Files of any of these paths, readable or not
BuildEntries ==
    [path : BuildPaths, bytes : CandidateBytes, readable : BOOLEAN]

\* The sets of at most n of the entries
RECURSIVE UpTo(_, _)
UpTo(entries, n) ==
    IF n = 0 THEN {{}}
    ELSE LET smaller == UpTo(entries, n - 1)
         IN  smaller \cup {t \cup {e} : t \in smaller, e \in entries}

BuildTrees == {t \in UpTo(BuildEntries, MaxFiles) : IsTree(t)}

InitBuild ==
    /\ dir \in BuildTrees
    /\ todo = dir
    /\ pc = "loading"
    /\ routes = NoRoutes
    /\ status_pages = NoRoutes
    /\ not_found_page = None
    /\ last = None
    /\ header = None
    /\ negotiated = None
    /\ clients = [c \in Clients |-> NoRequest]
    /\ channel = 0
    /\ worker = WorkerStart
    /\ recorder = LocalsStart(<<>>)

NextBuild ==
    \/ \E entry \in BuildEntries : LoadFile(entry)
    \/ FinishRouter

SpecBuild == InitBuild /\ [][NextBuild]_vars

\* ------------------------------------------- the Encoding extractor on its own

\* The most comma-separated chunks of an Accept-Encoding value
MaxTokens == 2

\* The chunks tried: the three supported names, an unsupported one, the
\* wildcard, a quality-valued one, names padded with a space and a tab, the
\* empty chunk, and one holding a byte that is not visible ASCII
Chunks ==
    {S_gzip, S_br, S_identity,
     <<"d", "e", "f", "l", "a", "t", "e">>,
     <<"*">>,
     S_br \o <<";", "q", "=", "0", ".", "9">>,
     <<" ">> \o S_gzip \o <<" ">>,
     <<"\t">> \o S_br,
     <<>>,
     <<ObsText>>}

\* The header values tried: up to MaxTokens chunks joined by ','
HeaderValues ==
    {Join(chunks, <<",">>) :
        chunks \in UNION {[1..n -> Chunks] : n \in 1..MaxTokens}}

\* The Encoding extractor runs on the parts of a request
Negotiate ==
    /\ negotiated = None
    /\ negotiated' = Some(Encoding_from_request_parts(header))
    /\ UNCHANGED <<dir, todo, pc, routes, status_pages, not_found_page, last,
                   header, pipeVars>>

\* The next request's parts arrive
NextParts(value) ==
    /\ IsSome(negotiated)
    /\ header' = value
    /\ negotiated' = None
    /\ UNCHANGED <<dir, todo, pc, routes, status_pages, not_found_page, last, pipeVars>>

InitNeg ==
    /\ dir = {}
    /\ todo = {}
    /\ pc = "serving"
    /\ routes = NoRoutes
    /\ status_pages = NoRoutes
    /\ not_found_page = None
    /\ last = None
    /\ header \in {None} \cup {Some(v) : v \in HeaderValues}
    /\ negotiated = None
    /\ clients = [c \in Clients |-> NoRequest]
    /\ channel = 0
    /\ worker = WorkerStart
    /\ recorder = LocalsStart(<<>>)

NextNeg ==
    \/ Negotiate
    \/ \E value \in {None} \cup {Some(v) : v \in HeaderValues} : NextParts(value)

SpecNeg == InitNeg /\ [][NextNeg]_vars

\* ------------------------------------------------- requests through the layers

\* router(dir) as a whole: the loop body for every entry of the walk
RECURSIVE LoadAll(_, _)
LoadAll(t, entries) ==
    IF entries = {} THEN t
    ELSE LET entry == CHOOSE e \in entries : TRUE
         IN  LoadAll(LoadStep(t, entry), entries \ {entry})

router(served_dir) ==
    LoadAll([pc |-> "loading",
             routes |-> NoRoutes,
             status_pages |-> NoRoutes,
             not_found_page |-> None], served_dir)

\* The sites served: one with a page for every status the server answers
\* with, one with an index page only
TextEntry(path) == [path |-> path, bytes |-> TextBytes, readable |-> TRUE]

Sites ==
    {{TextEntry(<<S_index_html>>),
      TextEntry(<<N_404 \o S_dot_html>>),
      TextEntry(<<N_408 \o S_dot_html>>),
      TextEntry(<<N_503 \o S_dot_html>>)},
     {TextEntry(<<S_index_html>>)}}

\* The requests sent: the index page with gzip accepted, and a path that is
\* not routed
PipeRequests ==
    {[path |-> S_slash_index_html, accept_encoding |-> Some(S_gzip)],
     [path |-> S_not_found, accept_encoding |-> None]}

\* flume::bounded(32)
RecorderCapacity == 32

\* if counter > 200: the worker dumps its entries to a file
FlushAfter == 200

\* A send that queues the entry whatever the channel holds
try_send_unbounded(queued, alive) == "Ok"

\* Sender::try_send on the recorder's channel: it never waits. The entry is
\* queued when the receiver is alive and the channel has room; otherwise it is
\* handed back in the error
try_send(queued, alive) ==
    IF ~alive THEN "Disconnected"
    ELSE IF queued < RecorderCapacity THEN "Ok"
    ELSE "Full"

\* The length of the channel after a try_send with that result
Queued(queued, result) == IF result = "Ok" THEN queued + 1 ELSE queued

\* The poll of the timeout layer's future: the inner future first, then the
\* timer
Timeout_poll(work, deadline) ==
    IF work = "ready" THEN "Ok"
    ELSE IF deadline = "passed" THEN "Elapsed"
    ELSE "Pending"

\* The timeout layer's future resolving without dropping the inner future
Abandon_keeps_running(work) == work

\* The timeout layer's future resolved with Elapsed: the inner future is
\* dropped with it and is never polled again
Abandon(work) == "dropped"

\* The error handling layer letting an error through to the connection
HandleError_call_passes_error(pages, accept_encoding, result) ==
    IF result.ok THEN <<result.resp>> ELSE <<>>

\* The future of the HandleError layer: the inner service's response, or the
\* error handler's response to its error
HandleError_call(pages, accept_encoding, result) ==
    IF result.ok THEN <<result.resp>>
    ELSE <<HandleError(pages, accept_encoding, result.err)>>

Ok(resp) == [ok |-> TRUE, resp |-> resp, err |-> "none"]
Err(err) == [ok |-> FALSE, resp |-> <<>>, err |-> err]

\* A request arrives on connection c and the layered service is called. The
\* load shedder asks the inner service whether it is ready (inner_ready) and
\* fails the request with Overloaded when it is not; otherwise the recorder
\* and the router are called and the 60 s timer starts.
Call(c, req, inner_ready) ==
    /\ pc = "serving"
    /\ clients[c].work = "none"
    /\ clients' = [clients EXCEPT ![c] =
            IF inner_ready
            THEN [@ EXCEPT !.req = Some(req), !.work = "pending"]
            ELSE [@ EXCEPT !.req = Some(req),
                           !.work = "rejected",
                           !.fault = Some("Overloaded"),
                           !.sent = @ \o HandleError_call(status_pages, req.accept_encoding,
                                                         Err("Overloaded"))]]
    /\ UNCHANGED <<dir, todo, pc, routes, status_pages, not_found_page, last,
                   negVars, channel, worker, recorder>>

\* The handler's future of connection c would return Ready at its next poll
InnerReady(c) ==
    /\ clients[c].work = "pending"
    /\ clients' = [clients EXCEPT ![c].work = "ready"]
    /\ UNCHANGED <<dir, todo, pc, routes, status_pages, not_found_page, last,
                   negVars, channel, worker, recorder>>

\* 60 s have passed since connection c's request was called; overdue records
\* that dispatch had not completed by then
Expire(c) ==
    /\ clients[c].work \in {"pending", "ready"}
    /\ clients[c].deadline = "ahead"
    /\ clients' = [clients EXCEPT ![c].deadline = "passed",
                                  ![c].overdue = (clients[c].work = "pending")]
    /\ UNCHANGED <<dir, todo, pc, routes, status_pages, not_found_page, last,
                   negVars, channel, worker, recorder>>

\* Poll with an entry sent for the timeout's error as well
Poll_records_elapsed(c) ==
    LET client == clients[c]
        req == Unwrap(client.req)
        polled == Timeout_poll(client.work, client.deadline)
    IN  /\ client.work \in {"pending", "ready"}
        /\ polled # "Pending"
        /\ IF polled = "Ok"
           THEN clients' = [clients EXCEPT ![c] =
                        [@ EXCEPT !.work = "finished",
                                  !.recorded = try_send(channel, worker.alive),
                                  !.sent = @ \o HandleError_call(
                                      status_pages, req.accept_encoding,
                                      Ok(Dispatch(routes, not_found_page, req.path,
                                                  req.accept_encoding, None)))]]
           ELSE clients' = [clients EXCEPT ![c] =
                        [@ EXCEPT !.work = Abandon(@),
                                  !.fault = Some("Elapsed"),
                                  !.recorded = try_send(channel, worker.alive),
                                  !.sent = @ \o HandleError_call(
                                      status_pages, req.accept_encoding,
                                      Err("Elapsed"))]]
        /\ channel' = Queued(channel, try_send(channel, worker.alive))
        /\ UNCHANGED <<dir, todo, pc, routes, status_pages, not_found_page, last,
                       negVars, worker, recorder>>

\* Poll with a send that waits for room in the channel
Poll_blocking_send(c) ==
    LET client == clients[c]
        req == Unwrap(client.req)
        polled == Timeout_poll(client.work, client.deadline)
    IN  /\ client.work \in {"pending", "ready"}
        /\ polled # "Pending"
        /\ IF polled = "Ok"
           THEN /\ channel < RecorderCapacity
                /\ clients' = [clients EXCEPT ![c] =
                        [@ EXCEPT !.work = "finished",
                                  !.recorded = "Ok",
                                  !.sent = @ \o HandleError_call(
                                      status_pages, req.accept_encoding,
                                      Ok(Dispatch(routes, not_found_page, req.path,
                                                  req.accept_encoding, None)))]]
                /\ channel' = channel + 1
           ELSE /\ clients' = [clients EXCEPT ![c] =
                        [@ EXCEPT !.work = Abandon(@),
                                  !.fault = Some("Elapsed"),
                                  !.sent = @ \o HandleError_call(
                                      status_pages, req.accept_encoding,
                                      Err("Elapsed"))]]
                /\ UNCHANGED channel
        /\ UNCHANGED <<dir, todo, pc, routes, status_pages, not_found_page, last,
                       negVars, worker, recorder>>

\* The task of connection c polls its request's future and it resolves: with
\* the handler's response, which the recorder sends an entry for, or with the
\* timeout's error
Poll(c) ==
    LET client == clients[c]
        req == Unwrap(client.req)
        polled == Timeout_poll(client.work, client.deadline)
    IN  /\ client.work \in {"pending", "ready"}
        /\ polled # "Pending"
        /\ IF polled = "Ok"
           THEN /\ clients' = [clients EXCEPT ![c] =
                        [@ EXCEPT !.work = "finished",
                                  !.recorded = try_send(channel, worker.alive),
                                  !.sent = @ \o HandleError_call(
                                      status_pages, req.accept_encoding,
                                      Ok(Dispatch(routes, not_found_page, req.path,
                                                  req.accept_encoding, None)))]]
                /\ channel' = Queued(channel, try_send(channel, worker.alive))
           ELSE /\ clients' = [clients EXCEPT ![c] =
                        [@ EXCEPT !.work = Abandon(@),
                                  !.fault = Some("Elapsed"),
                                  !.sent = @ \o HandleError_call(
                                      status_pages, req.accept_encoding,
                                      Err("Elapsed"))]]
                /\ UNCHANGED channel
        /\ UNCHANGED <<dir, todo, pc, routes, status_pages, not_found_page, last,
                       negVars, worker, recorder>>

\* One round of recorder_worker's loop: it receives an entry and counts it;
\* past 200 entries it writes them to a file and starts over, and when the
\* write fails (write_ok is false) the unwrap panics: the task ends and the
\* receiver is dropped with it
RecorderRecv(write_ok) ==
    /\ worker.alive
    /\ channel > 0
    /\ channel' = channel - 1
    /\ worker' = IF worker.counter + 1 > FlushAfter
                 THEN IF write_ok
                      THEN [alive |-> TRUE, counter |-> 0]
                      ELSE [alive |-> FALSE, counter |-> worker.counter + 1]
                 ELSE [worker EXCEPT !.counter = @ + 1]
    /\ UNCHANGED <<dir, todo, pc, routes, status_pages, not_found_page, last,
                   negVars, clients, recorder>>

InitPipe ==
    /\ dir \in Sites
    /\ todo = {}
    /\ pc = "serving"
    /\ routes = router(dir).routes
    /\ status_pages = router(dir).status_pages
    /\ not_found_page = router(dir).not_found_page
    /\ last = None
    /\ header = None
    /\ negotiated = None
    /\ clients = [c \in Clients |-> NoRequest]
    /\ channel = 0
    /\ worker = WorkerStart
    /\ recorder = LocalsStart(<<>>)

NextPipe ==
    \/ \E c \in Clients, req \in PipeRequests, inner_ready \in BOOLEAN :
            Call(c, req, inner_ready)
    \/ \E c \in Clients : InnerReady(c)
    \/ \E c \in Clients : Expire(c)
    \/ \E c \in Clients : Poll(c)
    \/ \E write_ok \in BOOLEAN : RecorderRecv(write_ok)

\* The timer of a request fires 60 s after the call, and the runtime polls a
\* task whose future can make progress
FairPipe == \A c \in Clients : WF_vars(Expire(c)) /\ WF_vars(Poll(c))

SpecPipe == InitPipe /\ [][NextPipe]_vars /\ FairPipe

\* --------------------------------------------- the recorder and its worker

\* The connection whose requests follow one another through the recorder
RecClients == {1}

\* The response of connection c's request has been written; the next request
\* is made of the same router, whose recorder holds the same sender
NextRequest(c) ==
    /\ clients[c].work \in {"finished", "rejected", "dropped"}
    /\ clients' = [clients EXCEPT ![c] = NoRequest]
    /\ UNCHANGED <<dir, todo, pc, routes, status_pages, not_found_page, last,
                   negVars, channel, worker, recorder>>

InitRec == InitPipe

NextRec ==
    \/ \E c \in RecClients, req \in PipeRequests, inner_ready \in BOOLEAN :
            Call(c, req, inner_ready)
    \/ \E c \in RecClients : InnerReady(c)
    \/ \E c \in RecClients : Expire(c)
    \/ \E c \in RecClients : Poll(c)
    \/ \E c \in RecClients : NextRequest(c)
    \/ \E write_ok \in BOOLEAN : RecorderRecv(write_ok)

SpecRec == InitRec /\ [][NextRec]_vars

\* ------------------------------------------------- recorder_worker's loop

S_accept_encoding ==
    <<"a", "c", "c", "e", "p", "t", "-", "e", "n", "c", "o", "d", "i", "n", "g">>

\* HeaderMap::into_iter of a request with one Accept-Encoding header: the name
\* comes with the first value only
HeaderIter(values) ==
    [i \in 1..Len(values) |->
        [name |-> IF i = 1 THEN Some(S_accept_encoding) ELSE None, val |-> values[i]]]

\* The entries the recorder sends for requests of a path that is not routed,
\* on a site without a 404 page: no Accept-Encoding, "gzip", two values that
\* differ and hash alike, a value that is not text, and two values at once.
\* The response is status_code_page's and has no header when it is recorded.
RecorderEntries ==
    {[uri |-> S_not_found,
      method |-> "GET",
      req |-> HeaderIter(values),
      resp |-> [status |-> status_code_page(None, NOT_FOUND, "Identity").status,
                headers |-> <<>>]] :
        values \in {<<>>, <<S_gzip>>, <<<<"A", "p">>>>, <<<<"B", "Q">>>>,
                    <<<<ObsText>>>>, <<S_br, S_gzip>>}}

\* usize::to_le_bytes of a small length
LengthPrefix(n) == <<n, 0, 0, 0, 0, 0, 0, 0>>

\* The bytes BTreeMap<String, String>::hash feeds the hasher: the length, then
\* every key and value, each followed by 0xff
RECURSIVE PairBytes(_)
PairBytes(norm) ==
    IF Len(norm) = 0 THEN <<>>
    ELSE AsBytes(norm[1][1]) \o <<255>> \o AsBytes(norm[1][2]) \o <<255>>
         \o PairBytes(Tail(norm))

\* norm_headers: the headers that have a name and a text value, as the pairs
\* of the BTreeMap, and their hash
norm_headers(headers) ==
    LET kept == SelectSeq(headers, LAMBDA h : IsSome(h.name) /\ IsSome(to_str(h.val)))
        norm == [i \in 1..Len(kept) |-> <<Unwrap(kept[i].name), kept[i].val>>]
    IN  [hash |-> XxHash64(ARBITRARY_SEED, LengthPrefix(Len(norm)) \o PairBytes(norm)),
         norm |-> norm]

\* The header table with an insert that replaces what the key held
InsertIfVacant_overwrites(table, hash, norm) ==
    [k \in DOMAIN table \cup {hash} |-> IF k = hash THEN norm ELSE table[k]]

\* if let hash_map::Entry::Vacant(vacant) = headers.entry(hash) { insert }
InsertIfVacant(table, hash, norm) ==
    IF hash \in DOMAIN table THEN table
    ELSE [k \in DOMAIN table \cup {hash} |-> IF k = hash THEN norm ELSE table[k]]

\* A flush one entry early
ShouldFlush_at_200(counter) == counter >= FlushAfter

\* if counter > 200
ShouldFlush(counter) == counter > FlushAfter

\* The entry the stream yields next
NextEntry(recv_stream) == recv_stream.pattern[recv_stream.at]

Advance(recv_stream) ==
    [recv_stream EXCEPT !.at = IF @ = Len(recv_stream.pattern) THEN 1 ELSE @ + 1]

\* One round of the while loop: the stream yields an entry, it is normalized
\* and pushed, its header sets are put in the table under their hashes unless
\* the hash is there already, and the counter goes up; past 200 the entries
\* and the table are written to a file and all three are reset. A write that
\* fails (write_ok is false) panics the task.
WorkerRecv(write_ok) ==
    /\ recorder.state = "receiving"
    /\ Len(recorder.recv_stream.pattern) > 0
    /\ LET entry == NextEntry(recorder.recv_stream)
           req == norm_headers(entry.req)
           resp == norm_headers(entry.resp.headers)
           norm_entry == [uri |-> entry.uri,
                          method |-> entry.method,
                          status |-> entry.resp.status,
                          req_headers |-> req.hash,
                          resp_headers |-> resp.hash]
           norm_entries == Append(recorder.norm_entries, norm_entry)
           headers == InsertIfVacant(
                          InsertIfVacant(recorder.headers, req.hash, req.norm),
                          resp.hash, resp.norm)
           counter == recorder.counter + 1
       IN  recorder' =
              IF ~ShouldFlush(counter)
              THEN [recorder EXCEPT !.recv_stream = Advance(@),
                                    !.counter = counter,
                                    !.norm_entries = norm_entries,
                                    !.headers = headers]
              ELSE IF write_ok
              THEN [recorder EXCEPT !.recv_stream = Advance(@),
                                    !.counter = 0,
                                    !.norm_entries = <<>>,
                                    !.headers = <<>>,
                                    !.written = Some([norm_entries |-> norm_entries,
                                                      headers |-> headers])]
              ELSE [recorder EXCEPT !.recv_stream = Advance(@),
                                    !.counter = counter,
                                    !.norm_entries = norm_entries,
                                    !.headers = headers,
                                    !.state = "panicked"]
    /\ UNCHANGED <<dir, todo, pc, routes, status_pages, not_found_page, last,
                   negVars, clients, channel, worker>>

\* recv_stream.next() yields None: every sender is gone. The loop ends and the
\* function returns; its locals are dropped
StreamEnd ==
    /\ recorder.state = "receiving"
    /\ recorder' = [recorder EXCEPT !.state = "ended"]
    /\ UNCHANGED <<dir, todo, pc, routes, status_pages, not_found_page, last,
                   negVars, clients, channel, worker>>

\* The entries of a stream repeat with a period of at most MaxPeriod
MaxPeriod == 2

Patterns == UNION {[1..n -> RecorderEntries] : n \in 1..MaxPeriod}

InitWorker ==
    /\ dir \in {site \in Sites : router(site).not_found_page = None}
    /\ todo = {}
    /\ pc = "serving"
    /\ routes = router(dir).routes
    /\ status_pages = router(dir).status_pages
    /\ not_found_page = router(dir).not_found_page
    /\ last = None
    /\ header = None
    /\ negotiated = None
    /\ clients = [c \in Clients |-> NoRequest]
    /\ channel = 0
    /\ worker = WorkerStart
    /\ recorder \in {LocalsStart(pattern) : pattern \in Patterns}

NextWorker ==
    \/ \E write_ok \in BOOLEAN : WorkerRecv(write_ok)
    \/ StreamEnd

SpecWorker == InitWorker /\ [][NextWorker]_vars

\* ================================================================== claims

\* The request being answered
Last == Unwrap(last)

\* A request is being answered by a route handler or the fallback
Served == IsSome(last) /\ Last.error = None

S_deflate_br == <<"d", "e", "f", "l", "a", "t", "e", ",", " ">> \o S_br

\* The body a compressible page has for an encoding
VariantOf(file, encoding) ==
    IF file.file.kind = "Data" THEN file.file.data
    ELSE IF encoding = "Gzip" THEN file.file.gz_compressed
    ELSE IF encoding = "Brotli" THEN file.file.br_compressed
    ELSE file.file.contents

\* ---------------------------------------------------------------------- C1

\* C1: for every valid status code c and every tree, GET /c.html ends in
\* NotFound: the response has status 404.
C1_StatusPageNotExposed ==
    (Served /\ IsSome(StatusCodeOf(Tail(Last.path)))) => Last.resp.status = 404

\* ---------------------------------------------------------------------- C3

\* C3: a GET whose If-None-Match is the ETag an earlier 200 for the same
\* resource returned, whatever its Accept-Encoding, gets status 304, an empty
\* body and only the Server, Content-Type and Cache-Control headers besides a
\* zero Content-Length: no ETag, Content-Encoding, Accept-Encoding or Vary.
C3_Revalidation ==
    (IsSome(last) /\ Last.revalidation) =>
        /\ Last.resp.status = 304
        /\ Last.resp.body = <<>>
        /\ DOMAIN Last.resp.headers =
               {"server", "content-type", "cache-control", "content-length"}
        /\ Last.resp.headers["content-length"] = 0

\* A compressible resource is revalidated by a request that accepts gzip
C3_Witness ==
    /\ IsSome(last)
    /\ Last.revalidation
    /\ Last.accept_encoding = Some(S_gzip)
    /\ Last.path \in DOMAIN routes
    /\ routes[Last.path].file.kind = "Text"
    /\ Last.resp.status = 304

\* ---------------------------------------------------------------------- C4

\* Two responses have the same status, body and Content-Type
SameAnswer(r1, r2) ==
    /\ r1.status = r2.status
    /\ r1.body = r2.body
    /\ ("content-type" \in DOMAIN r1.headers) = ("content-type" \in DOMAIN r2.headers)
    /\ ("content-type" \in DOMAIN r1.headers =>
            r1.headers["content-type"] = r2.headers["content-type"])

\* The entries of the tree that are a loaded <dir>/index.html
LoadedDirIndexes ==
    {e \in dir : /\ Len(e.path) >= 2
                 /\ e.path[Len(e.path)] = S_index_html
                 /\ IsSome(ServedFile_load(e))}

\* The request path of the directory an entry lies in
DirPathOf(e) == S_slash \o Join(SubSeq(e.path, 1, Len(e.path) - 1), S_slash)

\* C4: whenever <dir>/index.html is loaded, GET /<dir>, GET /<dir>/ and
\* GET /<dir>/index.html with the same request headers return the same status,
\* body and Content-Type (and it is the file's, not the fallback's).
C4_AliasEquivalence ==
    pc = "serving" =>
        \A e \in LoadedDirIndexes :
            \A accept_encoding \in AcceptEncodings, if_none_match \in IfNoneMatches :
                LET bare == Dispatch(routes, not_found_page, DirPathOf(e),
                                     accept_encoding, if_none_match)
                    slash == Dispatch(routes, not_found_page, DirPathOf(e) \o S_slash,
                                      accept_encoding, if_none_match)
                    full == Dispatch(routes, not_found_page,
                                     DirPathOf(e) \o S_slash_index_html,
                                     accept_encoding, if_none_match)
                IN  /\ SameAnswer(bare, slash)
                    /\ SameAnswer(slash, full)
                    /\ full.status \in {200, 304}

\* posts/index.html is loaded and GET /posts is answered with its content
C4_Witness ==
    /\ Served
    /\ Last.path = S_slash \o N_posts
    /\ Last.resp.status = 200
    /\ \E e \in LoadedDirIndexes : DirPathOf(e) = Last.path /\ Last.resp.body = e.bytes

\* ---------------------------------------------------------------------- C6

\* The request being answered found no route while a 404 page is loaded
NotFoundWithPage ==
    /\ Served
    /\ Last.path \notin DOMAIN routes
    /\ 404 \in DOMAIN status_pages

\* C6 as claimed: when the status-page table holds a 404 entry, the NotFound
\* response is assembled with identity encoding whatever Accept-Encoding the
\* request carries: its body is the page's raw bytes and it has no
\* Content-Encoding header.
C6_NotFoundAlwaysIdentity ==
    NotFoundWithPage =>
        /\ Last.resp.body = status_pages[404].file.contents
        /\ "content-encoding" \notin DOMAIN Last.resp.headers

\* C6 as amended: when the status-page table holds a 404 entry, the NotFound
\* response is assembled from it with the encoding negotiated from the
\* request's Accept-Encoding and with no conditional match: the status is 404
\* whatever If-None-Match says, the body is the page's variant for that
\* encoding, and Content-Encoding is gzip or br exactly when that encoding is.
C6_NotFoundNegotiated ==
    NotFoundWithPage =>
        LET encoding == Encoding_from_request_parts(Last.accept_encoding)
        IN  /\ Last.resp.status = 404
            /\ Last.resp.body = VariantOf(status_pages[404], encoding)
            /\ (encoding = "Identity") = ("content-encoding" \notin DOMAIN Last.resp.headers)
            /\ (encoding = "Gzip" => Last.resp.headers["content-encoding"] = "gzip")
            /\ (encoding = "Brotli" => Last.resp.headers["content-encoding"] = "br")

\* An unknown path is answered from the 404 page, brotli-encoded
C6_Witness ==
    /\ NotFoundWithPage
    /\ Last.accept_encoding = Some(S_deflate_br)
    /\ Last.resp.body = status_pages[404].file.br_compressed
    /\ Last.resp.body # status_pages[404].file.contents

\* ---------------------------------------------------------------------- C7

\* C7: an unknown path requested with Accept-Encoding "deflate, br" and served
\* from the (compressible) 404 page returns 404 with Content-Encoding: br and
\* no Accept-Encoding header, whereas a 200 for a compressible resource does
\* carry Accept-Encoding: gzip, br.
C7_NegotiationFallback ==
    /\ (NotFoundWithPage /\ Last.accept_encoding = Some(S_deflate_br)) =>
            /\ Last.resp.status = 404
            /\ "content-encoding" \in DOMAIN Last.resp.headers
            /\ Last.resp.headers["content-encoding"] = "br"
            /\ "accept-encoding" \notin DOMAIN Last.resp.headers
    /\ (/\ Served
        /\ Last.resp.status = 200
        /\ Last.path \in DOMAIN routes
        /\ routes[Last.path].file.kind = "Text") =>
            /\ "accept-encoding" \in DOMAIN Last.resp.headers
            /\ Last.resp.headers["accept-encoding"] = "gzip, br"

\* The request of the test: /not-found, "deflate, br", a 404 page loaded
C7_Witness ==
    /\ NotFoundWithPage
    /\ Last.path = S_not_found
    /\ Last.accept_encoding = Some(S_deflate_br)
    /\ Last.resp.status = 404

\* ---------------------------------------------------------------------- C8

\* The status code the claim gives each failure
ClaimedStatus(err) ==
    CASE err = "Overloaded" -> 503
      [] err = "Elapsed" -> 408
      [] OTHER -> 500

\* C8: an admission rejection is mapped to 503, a timeout to 408 and any other
\* failure to 500; the response has that status and is rendered from the
\* status-page table's entry for the code when there is one, otherwise from
\* the synthesized "<code> <reason>" text.
C8_FailureMapping ==
    (IsSome(last) /\ IsSome(Last.error)) =>
        LET code == ClaimedStatus(Unwrap(Last.error))
            encoding == Encoding_from_request_parts(Last.accept_encoding)
        IN  /\ Last.resp.status = code
            /\ code \in DOMAIN status_pages =>
                    /\ Last.resp.body = VariantOf(status_pages[code], encoding)
                    /\ Last.resp.headers["etag"] = status_pages[code].e_tag
            /\ code \notin DOMAIN status_pages =>
                    /\ Last.resp.body = AsBytes(StatusToString(code))
                    /\ DOMAIN Last.resp.headers = {"content-length"}

\* A timeout is answered from a loaded 408 page
C8_Witness ==
    /\ IsSome(last)
    /\ Last.error = Some("Elapsed")
    /\ 408 \in DOMAIN status_pages
    /\ Last.resp.status = 408
    /\ Last.resp.body = status_pages[408].file.contents


\* ------------------------------------------------------------------------ C5

\* The chunks of a header value that qualify: trimmed of whitespace they hold
\* no ';' and are one of identity, gzip, br
QualifyingChunks(value) ==
    LET chunks == Split(value, ",")
    IN  {i \in 1..Len(chunks) :
            /\ ";" \notin Range(chunks[i])
            /\ Trim(chunks[i]) \in {S_identity, S_gzip, S_br}}

\* The encoding a supported name stands for
EncodingNamed(name) ==
    IF name = S_gzip THEN "Gzip" ELSE IF name = S_br THEN "Brotli" ELSE "Identity"

\* The encoding of the first qualifying chunk of a header value, identity when
\* none qualifies
FirstQualifying(value) ==
    LET chunks == Split(value, ",")
        found == QualifyingChunks(value)
    IN  IF found = {} THEN "Identity"
        ELSE EncodingNamed(Trim(chunks[CHOOSE i \in found : \A j \in found : i <= j]))

\* C5: the negotiated encoding is that of the first comma-separated,
\* whitespace-trimmed Accept-Encoding token, in header order, that holds no ';'
\* and is exactly one of identity, gzip, br; it is identity when the header is
\* absent or no token qualifies
C5_ContentNegotiation ==
    IsSome(negotiated) =>
        Unwrap(negotiated) =
            (IF IsSome(header) THEN FirstQualifying(Unwrap(header)) ELSE "Identity")

\* C5 (amended): as C5 when every byte of the header value is visible ASCII;
\* a value holding any other byte is treated as an absent header, and the
\* negotiated encoding is identity
C5_NegotiationOfTextValues ==
    IsSome(negotiated) =>
        Unwrap(negotiated) =
            (IF IsSome(header) /\ ObsText \notin Range(Unwrap(header))
             THEN FirstQualifying(Unwrap(header))
             ELSE "Identity")

\* A value whose second token is the first to qualify, after a quality-valued
\* one, has been negotiated
C5_Witness ==
    /\ header = Some(S_br \o <<";", "q", "=", "0", ".", "9", ",">> \o S_gzip)
    /\ negotiated = Some("Gzip")

\* ------------------------------------------------------------------------ C2

\* The connections whose request has been admitted to dispatch and is not yet
\* answered
InFlight == {c \in Clients : clients[c].work \in {"pending", "ready"}}

\* An in-flight limit that NumClients concurrent requests exceed
InFlightLimit == NumClients - 1

\* C2: when more requests are concurrently in flight than the in-flight limit,
\* the excess requests are rejected at once with status 503, never admitted:
\* no more requests than the limit are ever inside dispatch together
C2_AdmissionControl == Cardinality(InFlight) <= InFlightLimit

\* ------------------------------------------------------------------------ C9

\* The connections whose request's future has resolved
Resolved == {c \in Clients : clients[c].work \in {"finished", "dropped", "rejected"}}

\* A well-formed response: a status code, a Content-Length of the body's size
WellFormed(resp) ==
    /\ resp.status \in 100..999
    /\ "content-length" \in DOMAIN resp.headers
    /\ resp.headers["content-length"] = Len(resp.body)

\* The response a boundary error is converted to: the status of the error,
\* with the status page's body when there is one and the status line as plain
\* text otherwise
ConvertedFrom(err, resp) ==
    /\ resp.status = ClaimedStatus(err)
    /\ resp.body \in
        (IF resp.status \in DOMAIN status_pages
         THEN {status_pages[resp.status].file.contents,
               status_pages[resp.status].file.gz_compressed,
               status_pages[resp.status].file.br_compressed}
         ELSE {AsBytes(StatusToString(resp.status))})

ExactlyOneResponse ==
    \A c \in Clients :
        /\ Len(clients[c].sent) <= 1
        /\ c \in Resolved => Len(clients[c].sent) = 1
        /\ \A i \in 1..Len(clients[c].sent) : WellFormed(clients[c].sent[i])
        /\ IsSome(clients[c].fault) /\ c \in Resolved =>
                ConvertedFrom(Unwrap(clients[c].fault), clients[c].sent[1])

\* C9: every request eventually receives exactly one well-formed response; a
\* timeout or overload error is caught once and converted into the response
\* of its status, so no request ends with an error or with no response
C9_EveryRequestAnswered ==
    /\ []ExactlyOneResponse
    /\ \A c \in Clients : IsSome(clients[c].req) ~> (Len(clients[c].sent) = 1)

\* One request was shed and answered 503 while another timed out and was
\* answered 408
C9_Witness ==
    \E c1, c2 \in Clients :
        /\ clients[c1].fault = Some("Overloaded")
        /\ Len(clients[c1].sent) = 1
        /\ clients[c1].sent[1].status = 503
        /\ clients[c2].fault = Some("Elapsed")
        /\ Len(clients[c2].sent) = 1
        /\ clients[c2].sent[1].status = 408

\* ----------------------------------------------------------------------- C10

\* The timeout response for connection c's request
TimeoutResponse(c) ==
    HandleError(status_pages, Unwrap(clients[c].req).accept_encoding, "Elapsed")

Routed == Served /\ Last.path \in DOMAIN routes

\* C15: a request to a routed resource yields 304 if and only if its
\* If-None-Match value is string-equal to the resource's fingerprint; a weak
\* validator, the wildcard, a list holding the fingerprint or no header yield
\* the 200 response
C15_StrongMatch ==
    Routed =>
        /\ Last.resp.status \in {200, 304}
        /\ Last.resp.status = 304 <=>
                Last.if_none_match = Some(routes[Last.path].e_tag)

\* The weak form of a resource's own fingerprint was answered 200
C15_Witness ==
    /\ Routed
    /\ Last.if_none_match = Some(<<"W", "/">> \o routes[Last.path].e_tag)
    /\ Last.resp.status = 200

\* ----------------------------------------------------------------------- C16

\* C16: every 200 response for a routed resource carries the resource's
\* fingerprint as ETag and a Content-Length equal to the byte length of the
\* body emitted, which is the variant of the negotiated encoding
C16_ETagAndLength ==
    (Routed /\ Last.resp.status = 200) =>
        /\ "etag" \in DOMAIN Last.resp.headers
        /\ Last.resp.headers["etag"] = routes[Last.path].e_tag
        /\ "content-length" \in DOMAIN Last.resp.headers
        /\ Last.resp.headers["content-length"] = Len(Last.resp.body)
        /\ Last.resp.body =
                VariantOf(routes[Last.path],
                          Encoding_from_request_parts(Last.accept_encoding))

\* A compressible resource was sent gzip-encoded, its body longer than its
\* contents
C16_Witness ==
    /\ Routed
    /\ Last.resp.status = 200
    /\ routes[Last.path].file.kind = "Text"
    /\ Last.accept_encoding = Some(S_gzip)
    /\ Len(Last.resp.body) # Len(routes[Last.path].file.contents)

\* ----------------------------------------------------------------------- C17

\* C17: on a 200 response Accept-Encoding: gzip, br is present iff the
\* resource is compressible, whatever was requested; Content-Encoding and
\* Vary: Accept-Encoding are present iff the resource is compressible and the
\* negotiated encoding is gzip or br, and then the body is the matching
\* precomputed variant; a resource that is not compressible returns its raw
\* bytes with none of these headers
C17_EncodingHeaders ==
    (Routed /\ Last.resp.status = 200) =>
        LET file == routes[Last.path]
            headers == Last.resp.headers
            encoding == Encoding_from_request_parts(Last.accept_encoding)
            encoded == is_compressible(file.ty)
            compressed == encoded /\ encoding \in {"Gzip", "Brotli"}
        IN  /\ "accept-encoding" \in DOMAIN headers <=> encoded
            /\ encoded => headers["accept-encoding"] = "gzip, br"
            /\ "content-encoding" \in DOMAIN headers <=> compressed
            /\ "vary" \in DOMAIN headers <=> compressed
            /\ compressed =>
                    /\ headers["vary"] = "accept-encoding"
                    /\ headers["content-encoding"] =
                            (IF encoding = "Gzip" THEN "gzip" ELSE "br")
                    /\ Last.resp.body =
                            (IF encoding = "Gzip" THEN file.file.gz_compressed
                             ELSE file.file.br_compressed)
            /\ encoded /\ ~compressed => Last.resp.body = file.file.contents
            /\ ~encoded => Last.resp.body = file.file.data

\* A compressible resource was sent br-encoded to a request that lists br
\* after an encoding the server does not know
C17_Witness ==
    /\ Routed
    /\ Last.resp.status = 200
    /\ Last.accept_encoding = Some(S_deflate_br)
    /\ "vary" \in DOMAIN Last.resp.headers
    /\ Last.resp.headers["content-encoding"] = "br"

\* ----------------------------------------------------------------------- C18

\* The bytes a run-length payload stands for
RECURSIVE Expand(_)
Expand(payload) ==
    IF Len(payload) < 2 THEN <<>>
    ELSE [i \in 1..payload[1] |-> payload[2]] \o Expand(SubSeq(payload, 3, Len(payload)))

\* What a client's gzip decoder makes of a body: the bytes, or <<-1>> when
\* the body is no gzip member or its size trailer is wrong
Gunzip(body) ==
    IF Len(body) < 4 \/ SubSeq(body, 1, 3) # <<31, 139, 8>> THEN <<-1>>
    ELSE LET bytes == Expand(SubSeq(body, 4, Len(body) - 1))
         IN  IF body[Len(body)] = Len(bytes) % 256 THEN bytes ELSE <<-1>>

\* C18: for every compressible resource and every Accept-Encoding for which
\* gzip is negotiated, decompressing the returned body yields exactly the body
\* of the identity-negotiated response for the same resource
C18_GzipRoundTrip ==
    (/\ Routed
     /\ Last.resp.status = 200
     /\ is_compressible(routes[Last.path].ty)
     /\ Encoding_from_request_parts(Last.accept_encoding) = "Gzip") =>
        Gunzip(Last.resp.body) =
            Dispatch(routes, not_found_page, Last.path, Some(S_identity), None).body

\* A gzip body that differs from the contents it decodes to was sent
C18_Witness ==
    /\ Routed
    /\ Last.resp.status = 200
    /\ "content-encoding" \in DOMAIN Last.resp.headers
    /\ Last.resp.headers["content-encoding"] = "gzip"
    /\ Gunzip(Last.resp.body) = TextBytes
    /\ Last.resp.body # TextBytes

\* ----------------------------------------------------------------------- C19

\* The status code a response is rendered for, 0 when it is a route's
StatusRenderedFor ==
    IF ~IsSome(last) THEN 0
    ELSE IF IsSome(Last.error) THEN ClaimedStatus(Unwrap(Last.error))
    ELSE IF Last.path \notin DOMAIN routes THEN 404
    ELSE 0

\* C19: a response rendered for a status code (404, 408, 503, 500) has that
\* status code and neither an Accept-Encoding nor a Cache-Control header, and
\* is never a 304, even when the request's If-None-Match equals the status
\* page's own fingerprint
C19_StatusPagesNotCacheable ==
    StatusRenderedFor # 0 =>
        /\ Last.resp.status = StatusRenderedFor
        /\ Last.resp.status # 304
        /\ "accept-encoding" \notin DOMAIN Last.resp.headers
        /\ "cache-control" \notin DOMAIN Last.resp.headers

\* A request for a path with no route, carrying the 404 page's fingerprint,
\* was answered 404 from that page
C19_Witness ==
    /\ StatusRenderedFor = 404
    /\ IsSome(not_found_page)
    /\ Last.if_none_match = Some(Unwrap(not_found_page).e_tag)
    /\ Last.resp.status = 404
    /\ Last.resp.headers["etag"] = Unwrap(not_found_page).e_tag

\* ----------------------------------------------------------------------- C12

\* The files of the tree that the loader accepts
LoadedFiles == {e \in dir : IsSome(ServedFile_load(e))}

\* A root-relative path of the shape <code>.html, the code three digits that
\* make a valid status code (100 to 999)
IsStatusPagePath(path) ==
    /\ Len(path) = 1
    /\ Len(path[1]) = 8
    /\ SubSeq(path[1], 4, 8) = S_dot_html
    /\ \A i \in 1..3 : path[1][i] \in Range(Digits)
    /\ path[1][1] # "0"

\* The code such a path names
CodeOfPath(path) ==
    100 * DigitVal(path[1][1]) + 10 * DigitVal(path[1][2]) + DigitVal(path[1][3])

\* The request path "/" + the root-relative path of a file
UrlOf(path) == S_slash \o Join(path, S_slash)

StatusPageFiles == {e \in LoadedFiles : IsStatusPagePath(e.path)}

RoutedFiles == LoadedFiles \ StatusPageFiles

\* C12: after the build, every loaded file whose root-relative path is
\* <code>.html with a valid status code is stored in the status-page table
\* under that code and has no route in the resource table, and every other
\* loaded file has at least one route
C12_StatusPagesNotRouted ==
    pc = "serving" =>
        /\ \A e \in StatusPageFiles :
                /\ CodeOfPath(e.path) \in DOMAIN status_pages
                /\ status_pages[CodeOfPath(e.path)] = Unwrap(ServedFile_load(e))
                /\ UrlOf(e.path) \notin DOMAIN routes
        /\ \A e \in RoutedFiles :
                /\ UrlOf(e.path) \in DOMAIN routes
                /\ routes[UrlOf(e.path)] = Unwrap(ServedFile_load(e))
        /\ DOMAIN status_pages = {CodeOfPath(e.path) : e \in StatusPageFiles}

\* A tree with a 408 page and a file named like a status page inside a
\* directory has been built
C12_Witness ==
    /\ pc = "serving"
    /\ \E e \in StatusPageFiles : CodeOfPath(e.path) = 408
    /\ \E e \in RoutedFiles : e.path = <<N_posts, N_404 \o S_dot_html>>

\* ----------------------------------------------------------------------- C13

\* The routes the aliasing rules give a routed file: / and /index.html for the
\* root index.html; /d, /d/ and /d/index.html for d/index.html; the path
\* itself for any other file
AliasesOf(path) ==
    LET name == path[Len(path)]
        d == S_slash \o Join(SubSeq(path, 1, Len(path) - 1), S_slash)
    IN  IF name # S_index_html THEN {UrlOf(path)}
        ELSE IF Len(path) = 1 THEN {S_slash, S_slash_index_html}
        ELSE {d, d \o S_slash, d \o S_slash_index_html}

AliasCount(path) ==
    IF path[Len(path)] # S_index_html THEN 1
    ELSE IF Len(path) = 1 THEN 2
    ELSE 3

\* C13: the build registers exactly one route for each routed file that is no
\* index.html, exactly three (/d, /d/, /d/index.html) for each d/index.html and
\* exactly two (/ and /index.html) for the root index.html, and no others; all
\* routes of one file serve the same resource
C13_AliasCount ==
    pc = "serving" =>
        /\ DOMAIN routes = UNION {AliasesOf(e.path) : e \in RoutedFiles}
        /\ \A e \in RoutedFiles :
                /\ Cardinality(AliasesOf(e.path) \cap DOMAIN routes) = AliasCount(e.path)
                /\ \A r \in AliasesOf(e.path) : routes[r] = Unwrap(ServedFile_load(e))
        /\ \A e1, e2 \in RoutedFiles :
                e1 # e2 => AliasesOf(e1.path) \cap AliasesOf(e2.path) = {}

\* A tree with a root index.html and a posts/index.html has been built: five
\* routes
C13_Witness ==
    /\ pc = "serving"
    /\ \E e \in RoutedFiles : e.path = <<S_index_html>>
    /\ \E e \in RoutedFiles : e.path = <<N_posts, S_index_html>>
    /\ Cardinality(DOMAIN routes) = 5

\* ----------------------------------------------------------------------- C14

\* The conditions under which a file is skipped: no recognized extension,
\* unreadable, or a compressible type with bytes that are not valid UTF-8
SkipCondition(e) ==
    LET ext == Extension(e.path[Len(e.path)])
        ty == IF IsSome(ext) THEN from_file_ext(Unwrap(ext)) ELSE None
    IN  \/ ~IsSome(ty)
        \/ ~e.readable
        \/ is_compressible(Unwrap(ty)) /\ ~IsUtf8(e.bytes)

\* The file is in the tables with its content
PresentInTables(e) ==
    IF IsStatusPagePath(e.path)
    THEN /\ CodeOfPath(e.path) \in DOMAIN status_pages
         /\ VariantOf(status_pages[CodeOfPath(e.path)], "Identity") = e.bytes
    ELSE /\ UrlOf(e.path) \in DOMAIN routes
         /\ VariantOf(routes[UrlOf(e.path)], "Identity") = e.bytes

AbsentFromTables(e) ==
    IF IsStatusPagePath(e.path)
    THEN CodeOfPath(e.path) \notin DOMAIN status_pages
    ELSE UrlOf(e.path) \notin DOMAIN routes

\* C14: a file is skipped exactly when it has no recognized extension, is
\* unreadable, or is of a compressible type with bytes that are not valid
\* UTF-8; no file aborts the build, and every other file of the tree is in the
\* tables with its content
C14_BuildNonFatal ==
    /\ pc # "panicked"
    /\ pc = "serving" =>
            \A e \in dir :
                IF SkipCondition(e) THEN AbsentFromTables(e) ELSE PresentInTables(e)

\* ----------------------------------------------------------------------- C20

HandlerResponse(client) ==
    Dispatch(routes, not_found_page, Unwrap(client.req).path,
             Unwrap(client.req).accept_encoding, None)

\* C11: telemetry never affects serving. A response the handler has ready is
\* handed on at the next poll whatever the state of the recorder's channel
\* (room, full at 32 entries, or disconnected because the worker is gone), and
\* what the client receives is exactly the handler's response, with no error
\* raised; the channel never holds more than 32 entries, so an entry sent to a
\* full channel is dropped
C11_TelemetryNeverAffectsServing ==
    /\ channel \in 0..RecorderCapacity
    /\ \A c \in Clients :
        /\ clients[c].work = "ready" => ENABLED Poll(c)
        /\ clients[c].work = "finished" =>
                /\ clients[c].sent = <<HandlerResponse(clients[c])>>
                /\ clients[c].fault = None
                /\ clients[c].recorded \in {"Ok", "Full", "Disconnected"}

\* A response was completed while the channel was full: its entry was dropped
C11_Witness ==
    \E c \in Clients :
        /\ clients[c].work = "finished"
        /\ clients[c].recorded = "Full"
        /\ clients[c].sent = <<HandlerResponse(clients[c])>>

\* ----------------------------------------------------------------------- C21

\* The fingerprint the tables hold for a loaded file of the tree
FingerprintOf(e) ==
    IF IsStatusPagePath(e.path)
    THEN status_pages[CodeOfPath(e.path)].e_tag
    ELSE routes[UrlOf(e.path)].e_tag

\* C21: loading the same directory a second time (router(dir), which walks
\* the files in an order of its own) gives every path the fingerprint the
\* first load gave it; the fingerprint of a file is a function of its bytes
\* alone, so two files with the same bytes have the same fingerprint whatever
\* their paths and media types
C21_FingerprintIdempotence ==
    pc = "serving" =>
        /\ DOMAIN router(dir).routes = DOMAIN routes
        /\ DOMAIN router(dir).status_pages = DOMAIN status_pages
        /\ \A p \in DOMAIN routes : router(dir).routes[p].e_tag = routes[p].e_tag
        /\ \A c \in DOMAIN status_pages :
                router(dir).status_pages[c].e_tag = status_pages[c].e_tag
        /\ \A e \in LoadedFiles : FingerprintOf(e) = ETagOf(e.bytes)
        /\ \A e1, e2 \in LoadedFiles :
                e1.bytes = e2.bytes => FingerprintOf(e1) = FingerprintOf(e2)

\* Two files with the same bytes, one text and one data, have been loaded
C21_Witness ==
    /\ pc = "serving"
    /\ \E e1, e2 \in LoadedFiles :
            /\ e1.path # e2.path
            /\ e1.bytes = e2.bytes
            /\ Unwrap(ServedFile_load(e1)).ty # Unwrap(ServedFile_load(e2)).ty
            /\ FingerprintOf(e1) = FingerprintOf(e2)

\* ----------------------------------------------------------------------- C22

\* The text after the last '/' of a request path
FinalSegment(path) == SubSeq(path, LastIndexOf(path, "/") + 1, Len(path))

HasRecognizedExtension(path) ==
    LET ext == Extension(FinalSegment(path))
    IN  IsSome(ext) /\ IsSome(from_file_ext(Unwrap(ext)))

\* The path a request path is resolved as: itself when its final segment has
\* a recognized extension, otherwise with /index.html appended, the '/' only
\* when the path does not end in one
Normalized(path) ==
    IF HasRecognizedExtension(path) THEN path
    ELSE (IF EndsWith(path, S_slash) THEN path ELSE path \o S_slash) \o S_index_html

Synthesized == StatusRenderedFor # 0 /\ StatusRenderedFor \notin DOMAIN status_pages

\* C23: when the status-page table has no entry for the status code being
\* rendered, the response has that status code, its body is the text of the
\* status (the code and its reason phrase, as in "404 Not Found"), and it has
\* no ETag, Content-Encoding, Accept-Encoding or Cache-Control header
C23_SynthesizedFallback ==
    Synthesized =>
        /\ Last.resp.status = StatusRenderedFor
        /\ Last.resp.body =
                AsBytes(Decimal(StatusRenderedFor) \o <<" ">>
                        \o CanonicalReason(StatusRenderedFor))
        /\ DOMAIN Last.resp.headers \cap
                {"etag", "content-encoding", "accept-encoding", "cache-control"} = {}

\* A request that asks for gzip timed out on a site that has pages, but none
\* for 408
C23_Witness ==
    /\ Synthesized
    /\ StatusRenderedFor = 408
    /\ DOMAIN status_pages # {}
    /\ Last.accept_encoding = Some(S_gzip)
    /\ Last.resp.body = AsBytes(<<"4", "0", "8", " ", "R", "e", "q", "u", "e", "s", "t",
                                  " ", "T", "i", "m", "e", "o", "u", "t">>)

\* ----------------------------------------------------------------------- C24

\* The worker received an entry and goes on receiving
Received == recorder.state = "receiving" /\ recorder'.state = "receiving" /\ recorder' # recorder

\* C24: the worker keeps the entries it receives in the order they arrive. It
\* writes a batch exactly when the count goes past 200, which is on the 201st
\* entry: the batch holds the 201 entries, and the counter, the entry list and
\* the header table are empty afterwards. An earlier entry writes nothing. When
\* the stream ends or the task dies, what was accumulated is not written
C24_TelemetryBatching ==
    [][(Received =>
            IF recorder.counter = 200
            THEN /\ IsSome(recorder'.written)
                 /\ Len(Unwrap(recorder'.written).norm_entries) = 201
                 /\ SubSeq(Unwrap(recorder'.written).norm_entries, 1, 200)
                        = recorder.norm_entries
                 /\ recorder'.counter = 0
                 /\ recorder'.norm_entries = <<>>
                 /\ DOMAIN recorder'.headers = {}
            ELSE /\ recorder'.written = recorder.written
                 /\ recorder'.counter = recorder.counter + 1
                 /\ Len(recorder'.norm_entries) = Len(recorder.norm_entries) + 1
                 /\ SubSeq(recorder'.norm_entries, 1, Len(recorder.norm_entries))
                        = recorder.norm_entries
                 /\ recorder'.norm_entries[Len(recorder'.norm_entries)].req_headers
                        = norm_headers(NextEntry(recorder.recv_stream).req).hash)
       /\ (recorder'.state \in {"ended", "panicked"} =>
                recorder'.written = recorder.written)]_vars

\* A batch of 201 entries was written, more entries were received after it,
\* and the stream ended before the next batch was full
C24_Witness ==
    /\ recorder.state = "ended"
    /\ IsSome(recorder.written)
    /\ Len(Unwrap(recorder.written).norm_entries) = 201
    /\ recorder.counter > 0
    /\ recorder.counter = Len(recorder.norm_entries)

\* ----------------------------------------------------------------------- C30

\* The worker is between two entries: at the top of its loop
BetweenEvents == recorder.state = "receiving"

ReferencedHashes ==
    {recorder.norm_entries[i].req_headers : i \in 1..Len(recorder.norm_entries)}
    \cup {recorder.norm_entries[i].resp_headers : i \in 1..Len(recorder.norm_entries)}

C30_Counts ==
    BetweenEvents =>
        /\ recorder.counter = Len(recorder.norm_entries)
        /\ recorder.counter <= 200
        /\ ReferencedHashes \subseteq DOMAIN recorder.headers
        /\ Cardinality(DOMAIN recorder.headers) <= 2 * Len(recorder.norm_entries)

C30_FirstSeenWins ==
    (Received /\ recorder.counter < 200) =>
        \A k \in DOMAIN recorder.headers :
            /\ k \in DOMAIN recorder'.headers
            /\ recorder'.headers[k] = recorder.headers[k]

\* C30: between events the counter is the number of accumulated entries and
\* is at most 200; every request-header and response-header hash an
\* accumulated entry refers to is a key of the header table; the table has at
\* most twice as many keys as there are entries; and a key the table holds
\* keeps its header set when a later entry has the same hash
C30_SinkWorkerInvariant == []C30_Counts /\ [][C30_FirstSeenWins]_vars

\* Two entries whose request headers differ and hash alike have been
\* received: the table holds the header set of the first
C30_Witness ==
    /\ BetweenEvents
    /\ Len(recorder.recv_stream.pattern) = 2
    /\ Len(recorder.norm_entries) >= 2
    /\ LET first == norm_headers(recorder.recv_stream.pattern[1].req)
           second == norm_headers(recorder.recv_stream.pattern[2].req)
       IN  /\ first.hash = second.hash
           /\ first.norm # second.norm
           /\ recorder.norm_entries[1].req_headers = first.hash
           /\ recorder.norm_entries[2].req_headers = first.hash
           /\ recorder.headers[first.hash] = first.norm

\* ----------------------------------------------------------------------- C25

\* The connections whose request was answered by the router's dispatch
Dispatched == {c \in Clients : clients[c].work = "finished"}

\* C25: an entry is sent to the recorder for a request exactly when its
\* response was produced by the dispatch of a route or of the fallback. A
\* request answered for a timeout (408) or for an overload (503) sends none,
\* so the entries sent (those in the channel and those the worker has
\* counted) are as many as the dispatched responses
C25_TelemetryOnlyForDispatched ==
    /\ \A c \in Clients :
        /\ clients[c].recorded # "none" <=> c \in Dispatched
        /\ clients[c].fault \in {Some("Elapsed"), Some("Overloaded")} =>
                /\ clients[c].recorded = "none"
                /\ Len(clients[c].sent) = 1
                /\ clients[c].sent[1].status \in {408, 503}
    /\ channel + worker.counter = Cardinality(Dispatched)

\* One request timed out and one was shed: both were answered and no entry
\* was sent for either
C25_Witness ==
    /\ \E c \in Clients :
        /\ clients[c].fault = Some("Elapsed")
        /\ clients[c].sent[1].status = 408
    /\ \E c \in Clients :
        /\ clients[c].fault = Some("Overloaded")
        /\ clients[c].sent[1].status = 503
    /\ channel = 0
    /\ worker.counter = 0

\* ----------------------------------------------------------------------- C26

\* The connections whose request has had its entry sent, or offered to a
\* channel that would not take it
Attempted == {c \in Clients : clients[c].recorded # "none"}

\* A step in which the recorder offers an entry to the channel
C26_OneAttemptAtCompletion ==
    /\ channel' > channel =>
            /\ channel' = channel + 1
            /\ \E c \in Clients :
                    /\ clients[c].work = "ready"
                    /\ clients'[c].work = "finished"
                    /\ clients[c].recorded = "none"
                    /\ clients'[c].recorded = "Ok"
                    /\ \A d \in Clients \ {c} : clients'[d] = clients[d]
    /\ \A c \in Clients :
            clients[c].recorded # "none" =>
                /\ ~ENABLED Poll(c)
                /\ clients'[c].recorded \in {clients[c].recorded, "none"}
                /\ clients'[c].recorded = "none" => clients'[c].work = "none"

C26_NoneBeforeCompletion ==
    /\ channel \in 0..32
    /\ \A c \in Clients :
            clients[c].work \in {"none", "pending", "ready", "dropped", "rejected"} =>
                clients[c].recorded = "none"

\* C26: at most one entry is offered to the channel for a request, and only
\* in the poll that finds its response ready: a request whose future is
\* pending, or was dropped by the timeout before it completed, has offered
\* none, and a request that has offered one is never polled again. The
\* channel never holds more than 32 entries
C26_OneEventPerRequest ==
    []C26_NoneBeforeCompletion /\ [][C26_OneAttemptAtCompletion]_vars

\* The channel holds its 32 entries while a request is pending: nothing has
\* been offered for it
C26_Witness ==
    /\ channel = 32
    /\ \E c \in Clients :
            /\ clients[c].work = "pending"
            /\ clients[c].deadline = "passed"
            /\ clients[c].recorded = "none"

\* ----------------------------------------------------------------------- C27

\* C27: a resource has one fingerprint, which every encoding variant of it is
\* served with, and a request whose If-None-Match is that fingerprint gets 304
\* whatever its Accept-Encoding negotiates, the encoding of the response the
\* fingerprint came from or another
C27_RevalidationBeforeNegotiation ==
    Routed =>
        /\ \A accept_encoding \in AcceptEncodings :
                Dispatch(routes, not_found_page, Last.path, accept_encoding,
                         None).headers["etag"] = routes[Last.path].e_tag
        /\ Last.if_none_match = Some(routes[Last.path].e_tag) =>
                /\ Last.resp.status = 304
                /\ Last.resp.body = <<>>
                /\ "content-encoding" \notin DOMAIN Last.resp.headers

\* A request that accepts gzip names the fingerprint the identity response of
\* a compressible resource carries, and gets 304
C27_Witness ==
    /\ Routed
    /\ routes[Last.path].file.kind = "Text"
    /\ Encoding_from_request_parts(Last.accept_encoding) = "Gzip"
    /\ Last.if_none_match =
            Some(Dispatch(routes, not_found_page, Last.path, None, None).headers["etag"])
    /\ Dispatch(routes, not_found_page, Last.path, None, None).body
            # Dispatch(routes, not_found_page, Last.path, Last.accept_encoding, None).body
    /\ Last.resp.status = 304

\* ----------------------------------------------------------------------- C28

\* The files the loop has registered routes for so far
Registered ==
    {e \in LoadedFiles \ todo :
        /\ \A i \in 1..Len(e.path) : IsSome(OsStr_to_str(e.path[i]))
        /\ ~IsSome(StatusCodeOf(RelPath(e)))}

\* The route paths the loop registers for a file
RoutesOf(e) == Range(RoutePathsOf(RelPath(e)))

GetCanonical(e) == Dispatch(routes, not_found_page, UrlOf(e.path), None, None)

\* C29: the status-page table holds a file only under a code from 100 to 999
\* and only when the file's whole root-relative path is <code>.html; any other
\* loaded file, one named like a status page inside a directory or one named
\* 000.html among them, is an ordinary route, and GET on its canonical path
\* returns 200 with its content
C29_OnlyRootLevelStatusPages ==
    pc = "serving" =>
        /\ \A code \in DOMAIN status_pages :
                /\ code \in 100..999
                /\ \E e \in LoadedFiles :
                        /\ e.path = <<Decimal(code) \o S_dot_html>>
                        /\ status_pages[code] = Unwrap(ServedFile_load(e))
        /\ \A e \in LoadedFiles :
                (\A code \in 100..999 : e.path # <<Decimal(code) \o S_dot_html>>) =>
                    /\ UrlOf(e.path) \in DOMAIN routes
                    /\ GetCanonical(e).status = 200
                    /\ GetCanonical(e).body = e.bytes

\* posts/404.html and 000.html have been built into routes: the status-page
\* table is empty and both are served with 200
C29_Witness ==
    /\ pc = "serving"
    /\ DOMAIN status_pages = {}
    /\ \E e1, e2 \in LoadedFiles :
            /\ e1.path = <<N_posts, N_404 \o S_dot_html>>
            /\ e2.path = <<<<"0", "0", "0">> \o S_dot_html>>
            /\ GetCanonical(e1).status = 200
            /\ GetCanonical(e2).status = 200
            /\ GetCanonical(e2).body = e2.bytes

====
